---- MODULE Spec2Model ----
(***************************************************************************)
(* Lighthouse automation suite: the payload extractor, the result          *)
(* accumulator (write_to_csv), the URL list loader, the batch loop of      *)
(* main.py and the reporting surfaces that read the primary store.         *)
(*                                                                         *)
(* A Python dict is a sequence of <<key, value>> pairs in insertion order. *)
(* A category score is an integer number of thousandths (850 is 0.85), a   *)
(* numericValue an integer; Null (-1) is JSON null / an absent key.        *)
(***************************************************************************)
EXTENDS Integers, Sequences, FiniteSets, TLC

VARIABLES
    \* primary store pagespeed_results.csv
    csvExists,      \* the file exists on disk
    csvRows,        \* its rows, in file order
    csvCalls,       \* write_to_csv calls made so far
    report,         \* what the reporting surface that ran last presented
    \* urls.txt and read_urls_from_file
    urlsFile,       \* [exists, lines]: a line is a sequence of tokens
    linePos,        \* lines consumed by the loop so far
    urls, invalid_lines,    \* the function's two lists
    printed,        \* the invalid lines the function printed (lines 615-617)
    loadPc,         \* where read_urls_from_file is
    test_urls,      \* what read_urls_from_file returned (main.py:633)
    \* extract_lighthouse_data on one payload
    exPayload, exDevice, exData, exPc,
    \* the secondary stores lighthouse_{opportunities,accessibility,seo_details}.csv
    secondary,
    \* the batch loop of main.py and get_pagespeed_results
    pc,             \* where the batch is
    idx,            \* i of "for i, url in enumerate(test_urls, 1)"
    sessions,       \* the targets whose browser session is open
    window,         \* window.__LIGHTHOUSE_{MOBILE,DESKTOP}_JSON__ of the page
    elapsed,        \* seconds waited by the wait-for-both loop
    mobile_json, desktop_json,      \* what the last execute_script calls returned
    page_speed_scores,              \* the returned dict, <<>> for None
    delay,          \* the delay being slept, 0 when none
    delayCount,     \* delays slept so far
    attempted,      \* targets for which get_pagespeed_results was called
    failed,         \* targets whose processing raised
    written,        \* targets for which write_to_csv was called
    \* the three insight miners on one payload (main.py:135-143)
    mnPayload, mnDevice, mnUrl,
    mnOut,          \* [opportunities, accessibility, seo]: the lists returned
    mnPc,
    \* the report classifiers on one stored cell
    cColumn,        \* the metric column without its device prefix, or "score"
    cDevice,
    cValue,         \* the cell as pandas hands it over
    cClass,         \* surface -> CSS class returned
    cPc,
    \* main_backup.get_pagespeed_results on one page
    lgDom,          \* what the page's DOM offers within the waits
    lgResult,       \* the result dict, <<>> for None
    lgOpen,         \* the driver has not been quit
    lgPc,
    \* run_analysis.main, run after run
    wfPc,           \* where main is
    wfSteps,        \* the steps this run has entered, in order
    wfReturn,       \* what main returned: "none" while it runs, "True", "False"
    wfRuns,         \* runs started so far
    htmlExists,     \* pagespeed_report.html exists
    wfIssued        \* per run, the issue records the run's targets carried

csvVars == <<csvExists, csvRows, csvCalls, report>>
urlVars == <<urlsFile, linePos, urls, invalid_lines, printed, loadPc, test_urls>>
exVars  == <<exPayload, exDevice, exData, exPc>>
batchVars == <<secondary, pc, idx, sessions, window, elapsed, mobile_json,
               desktop_json, page_speed_scores, delay, delayCount, attempted,
               failed, written>>
mineVars == <<mnPayload, mnDevice, mnUrl, mnOut, mnPc>>
clsVars == <<cColumn, cDevice, cValue, cClass, cPc>>
lgVars == <<lgDom, lgResult, lgOpen, lgPc>>
wfVars == <<wfPc, wfSteps, wfReturn, wfRuns, htmlExists, wfIssued>>

----------------------------------------------------------------------------
(* Python dict operations *)

Null == -1

HasKey(d, k) == \E i \in 1..Len(d) : d[i][1] = k

Get(d, k) == d[CHOOSE i \in 1..Len(d) : d[i][1] = k][2]

DictKeys(d) == [i \in 1..Len(d) |-> d[i][1]]

\* d[k] = v: an existing key keeps its position, a new key goes last
SetItem(d, k, v) ==
    IF HasKey(d, k)
    THEN [i \in 1..Len(d) |-> IF d[i][1] = k THEN <<k, v>> ELSE d[i]]
    ELSE Append(d, <<k, v>>)

RECURSIVE Update(_, _)
Update(d, e) ==
    IF e = <<>> THEN d ELSE Update(SetItem(d, e[1][1], e[1][2]), Tail(e))

InSeq(x, s) == \E i \in 1..Len(s) : s[i] = x

----------------------------------------------------------------------------
(* extract_lighthouse_data, src/main.py:187-255 *)

Devices == {"mobile", "desktop"}

\* title absent from the category entry / title present but JSON null
NoTitle   == "<absent>"
NullTitle == "<null>"

\* str.lower().replace(' ', '_') on the titles and keys the model uses
LowerUnderscore(t) ==
    CASE t = "Performance"    -> "performance"
      [] t = "Accessibility"  -> "accessibility"
      [] t = "Best Practices" -> "best_practices"
      [] t = "SEO"            -> "seo"
      [] t = "PWA"            -> "pwa"
      [] OTHER                -> t

\* scores (in thousandths) whose IEEE-754 product score * 100 falls just
\* below the exact value: 0.29 * 100 = 28.999999999999996, and 0.57, 0.58
FloatBelow == {290, 570, 580}

\* mutant: the key is not prefixed with the device
FieldKey_NoPrefix(device_type, name) == name

\* f"{device_type}_{category_name}" and f"{device_type}_{metric_name}",
\* lines 208 and 249
FieldKey(device_type, name) == device_type \o "_" \o name

\* int(score * 100), line 207: the double product, truncated toward zero
IntTimes100(score) ==
    IF score \in FloatBelow THEN (score \div 10) - 1 ELSE score \div 10

\* the category loop, lines 202-209; a null title raises at .lower()
\* (AttributeError), which leaves the loop with what was stored so far
RECURSIVE CategoryLoop(_, _, _)
CategoryLoop(categories, device_type, data) ==
    IF categories = <<>> THEN [data |-> data, raised |-> FALSE]
    ELSE LET category_data == Head(categories)
             title == IF category_data.title = NoTitle
                      THEN category_data.key ELSE category_data.title
         IN  IF title = NullTitle THEN [data |-> data, raised |-> TRUE]
             ELSE LET category_name == LowerUnderscore(title)
                      score == category_data.score
                      next == IF score # Null
                              THEN SetItem(data, FieldKey(device_type, category_name),
                                           IntTimes100(score))
                              ELSE data
                  IN  CategoryLoop(Tail(categories), device_type, next)

metrics_mapping ==
    << <<"first-contentful-paint",   "first_contentful_paint">>,
       <<"largest-contentful-paint", "largest_contentful_paint">>,
       <<"total-blocking-time",      "total_blocking_time">>,
       <<"cumulative-layout-shift",  "cumulative_layout_shift">>,
       <<"speed-index",              "speed_index">>,
       <<"interactive",              "time_to_interactive">>,
       <<"first-meaningful-paint",   "first_meaningful_paint">> >>

\* numeric values (ms) ending in 5 whose double n/1000 lies just above the
\* decimal tie (2.345 is 2.34500000000000019984...), so that the :.2f format
\* rounds up; and those whose double lies just below it (1.005 is 1.00499...)
QuotientAbove == {1235, 2345}
QuotientBelow == {1005, 1015, 1025}

\* n / d to the nearest integer as the :.2f format of line 241 rounds it: by
\* the double's position for the ties above, half to even for a tie the
\* double holds exactly (1.125)
RoundDiv(n, d) ==
    LET q == n \div d
        r == n % d
    IN  IF 2 * r > d THEN q + 1
        ELSE IF 2 * r < d THEN q
        ELSE IF n \in QuotientAbove THEN q + 1
        ELSE IF n \in QuotientBelow THEN q
        ELSE IF q % 2 = 1 THEN q + 1 ELSE q

\* mutant: the seconds form is never chosen
FormatNumeric_AlwaysMs(audit_key, numeric_value) ==
    IF audit_key = "cumulative-layout-shift"
    THEN <<numeric_value, 3, "">>
    ELSE <<numeric_value, 0, " ms">>

\* A display string is <<digits, decimals, unit>>: "1.25 s" is <<125, 2, " s">>.
\* Lines 236-245: numericValue is an integer (thousandths for layout shift,
\* milliseconds for the timings).
FormatNumeric(audit_key, numeric_value) ==
    IF audit_key = "cumulative-layout-shift"
    THEN <<numeric_value, 3, "">>
    ELSE IF numeric_value >= 1000
         THEN <<RoundDiv(numeric_value, 10), 2, " s">>
         ELSE <<numeric_value, 0, " ms">>

\* mutant: a numericValue of 0 is taken for a missing one (truthiness)
IsNotNone_Truthy(numeric_value) == numeric_value # Null /\ numeric_value # 0

\* line 234: numeric_value is not None
IsNotNone(numeric_value) == numeric_value # Null

\* the metrics loop, lines 225-250; audits is a dict audit_key -> audit, an
\* audit a record: score (thousandths or Null), displayValue (<<>> when absent
\* or '', else <<string>>), numericValue (or Null) and savings (<<>> when
\* details.overallSavingsMs is absent, else <<milliseconds>>)
RECURSIVE MetricsLoop(_, _, _, _)
MetricsLoop(mapping, audits, device_type, data) ==
    IF mapping = <<>> THEN data
    ELSE LET audit_key == mapping[1][1]
             metric_name == mapping[1][2]
             next ==
               IF ~HasKey(audits, audit_key) THEN data
               ELSE LET audit == Get(audits, audit_key)
                    IN  IF audit.displayValue # <<>>
                        THEN SetItem(data, FieldKey(device_type, metric_name),
                                     audit.displayValue[1])
                        ELSE IF IsNotNone(audit.numericValue)
                        THEN SetItem(data, FieldKey(device_type, metric_name),
                                     FormatNumeric(audit_key, audit.numericValue))
                        ELSE data
         IN  MetricsLoop(Tail(mapping), audits, device_type, next)

extract_lighthouse_data(lighthouse_json, device_type) ==
    LET cats == CategoryLoop(lighthouse_json.categories, device_type, <<>>)
    IN  IF cats.raised THEN cats.data
        ELSE MetricsLoop(metrics_mapping, lighthouse_json.audits, device_type, cats.data)

----------------------------------------------------------------------------
(* the insight miners, src/main.py:258-408; title and description are passed *)
(* through from the payload and are left out of the records                  *)

opportunity_audits ==
    <<"uses-optimized-images", "modern-image-formats", "unused-css-rules",
      "render-blocking-resources", "uses-text-compression",
      "efficient-animated-content", "uses-responsive-images", "offscreen-images",
      "unminified-css", "unminified-javascript", "uses-http2", "font-display">>

accessibility_audits ==
    <<"color-contrast", "image-alt", "aria-labels", "heading-order", "link-name",
      "button-name", "form-field-multiple-labels", "skip-link", "tabindex",
      "focus-traps">>

seo_audits ==
    <<"meta-description", "document-title", "structured-data", "robots-txt",
      "canonical", "hreflang", "is-crawlable", "font-size", "tap-targets">>

\* mutant: the tier boundaries taken inclusive
Impact_Inclusive(potential_savings) ==
    IF potential_savings >= 1000 THEN "High"
    ELSE IF potential_savings >= 500 THEN "Medium" ELSE "Low"

\* line 303
Impact(potential_savings) ==
    IF potential_savings > 1000 THEN "High"
    ELSE IF potential_savings > 500 THEN "Medium" ELSE "Low"

RECURSIVE OpportunityLoop(_, _, _, _, _)
OpportunityLoop(catalog, audits, device_type, url, opportunities) ==
    IF catalog = <<>> THEN opportunities
    ELSE LET audit_key == Head(catalog)
             next ==
               IF ~HasKey(audits, audit_key) THEN opportunities
               ELSE LET audit == Get(audits, audit_key)
                        potential_savings ==
                            IF audit.savings = <<>> THEN 0 ELSE audit.savings[1]
                    IN  IF audit.score # Null /\ audit.score < 1000
                           /\ potential_savings > 0
                        THEN Append(opportunities,
                                    [url |-> url, device_type |-> device_type,
                                     audit_id |-> audit_key, score |-> audit.score,
                                     potential_savings_ms |-> potential_savings,
                                     impact |-> Impact(potential_savings)])
                        ELSE opportunities
         IN  OpportunityLoop(Tail(catalog), audits, device_type, url, next)

extract_performance_opportunities(lighthouse_json, device_type, url) ==
    OpportunityLoop(opportunity_audits, lighthouse_json.audits, device_type, url, <<>>)

\* mutant: every failing audit is a warning
Severity_AlwaysWarning(score) == "Warning"

\* line 344
Severity(score) == IF score = 0 THEN "Critical" ELSE "Warning"

RECURSIVE AccessibilityLoop(_, _, _, _, _)
AccessibilityLoop(catalog, audits, device_type, url, issues) ==
    IF catalog = <<>> THEN issues
    ELSE LET audit_key == Head(catalog)
             next ==
               IF ~HasKey(audits, audit_key) THEN issues
               ELSE LET audit == Get(audits, audit_key)
                    IN  IF audit.score # Null /\ audit.score < 1000
                        THEN Append(issues,
                                    [url |-> url, device_type |-> device_type,
                                     audit_id |-> audit_key, score |-> audit.score,
                                     severity |-> Severity(audit.score)])
                        ELSE issues
         IN  AccessibilityLoop(Tail(catalog), audits, device_type, url, next)

extract_accessibility_issues(lighthouse_json, device_type, url) ==
    AccessibilityLoop(accessibility_audits, lighthouse_json.audits, device_type, url, <<>>)

\* mutant: a null score is read as 0
SeoStatus_NullFails(score) ==
    IF score = 1000 THEN "Pass" ELSE IF score = 0 \/ score = Null THEN "Fail" ELSE "Warning"

\* line 393: audit.get('score', 0) of a null score is None, neither 1 nor 0
SeoStatus(score) ==
    IF score = 1000 THEN "Pass" ELSE IF score = 0 THEN "Fail" ELSE "Warning"

RECURSIVE SeoLoop(_, _, _, _, _)
SeoLoop(catalog, audits, device_type, url, seo_details) ==
    IF catalog = <<>> THEN seo_details
    ELSE LET audit_key == Head(catalog)
             next ==
               IF ~HasKey(audits, audit_key) THEN seo_details
               ELSE LET audit == Get(audits, audit_key)
                    IN  Append(seo_details,
                               [url |-> url, device_type |-> device_type,
                                audit_id |-> audit_key, score |-> audit.score,
                                status |-> SeoStatus(audit.score)])
         IN  SeoLoop(Tail(catalog), audits, device_type, url, next)

extract_seo_details(lighthouse_json, device_type, url) ==
    SeoLoop(seo_audits, lighthouse_json.audits, device_type, url, <<>>)

----------------------------------------------------------------------------
(* get_pagespeed_results, the extraction part, src/main.py:115-176 *)

\* window.__LIGHTHOUSE_..._JSON__ is not set (or is falsy)
NoPayload == [categories |-> <<>>, audits |-> <<>>, truthy |-> FALSE]

\* mutant: a device without payload is filled in with a zero score
MergeDevice_Placeholder(acc, json, device_type, url) ==
    IF json.truthy
    THEN [result |-> Update(acc.result, extract_lighthouse_data(json, device_type)),
          opportunities |-> acc.opportunities \o
                extract_performance_opportunities(json, device_type, url),
          accessibility |-> acc.accessibility \o
                extract_accessibility_issues(json, device_type, url),
          seo |-> acc.seo \o extract_seo_details(json, device_type, url)]
    ELSE [acc EXCEPT !.result = SetItem(@, device_type \o "_performance", 0)]

\* lines 129-147 for mobile, 151-169 for desktop: one device's contribution
MergeDevice(acc, json, device_type, url) ==
    IF json.truthy
    THEN [result |-> Update(acc.result, extract_lighthouse_data(json, device_type)),
          opportunities |-> acc.opportunities \o
                extract_performance_opportunities(json, device_type, url),
          accessibility |-> acc.accessibility \o
                extract_accessibility_issues(json, device_type, url),
          seo |-> acc.seo \o extract_seo_details(json, device_type, url)]
    ELSE acc

\* lines 120-176; final_url is the browser's current URL without its query
ExtractResults(url_to_test, final_url, mobile, desktop) ==
    LET start == [result |-> << <<"url", url_to_test>>, <<"final_url", final_url>> >>,
                  opportunities |-> <<>>, accessibility |-> <<>>, seo |-> <<>>]
        m == MergeDevice(start, mobile, "mobile", url_to_test)
        d == MergeDevice(m, desktop, "desktop", url_to_test)
    IN  d.result \o << <<"_opportunities", d.opportunities>>,
                       <<"_accessibility_issues", d.accessibility>>,
                       <<"_seo_details", d.seo>> >>

----------------------------------------------------------------------------
(* write_to_csv, src/main.py:410-481 *)

\* lines 425-454
fieldnames ==
    <<"url", "final_url",
      "mobile_performance", "mobile_accessibility", "mobile_best_practices",
      "mobile_seo",
      "desktop_performance", "desktop_accessibility", "desktop_best_practices",
      "desktop_seo",
      "mobile_first_contentful_paint", "mobile_largest_contentful_paint",
      "mobile_total_blocking_time", "mobile_cumulative_layout_shift",
      "mobile_speed_index", "mobile_time_to_interactive",
      "mobile_first_meaningful_paint",
      "desktop_first_contentful_paint", "desktop_largest_contentful_paint",
      "desktop_total_blocking_time", "desktop_cumulative_layout_shift",
      "desktop_speed_index", "desktop_time_to_interactive",
      "desktop_first_meaningful_paint">>

\* mutant: the internal keys are not filtered out
CleanData_KeepAll(data) == data

\* line 422: the dict without its internal keys
CleanData(data) == SelectSeq(data, LAMBDA kv : SubSeq(kv[1], 1, 1) # "_")

\* lines 458-460: the fixed columns, then this dict's other keys in dict order
FieldnamesFor(clean_data) ==
    fieldnames \o SelectSeq(DictKeys(clean_data), LAMBDA k : ~InSeq(k, fieldnames))

\* the restval of csv.DictWriter: a key the dict lacks is written as ''
Blank == [key |-> "", val |-> ""]

\* DictWriter.writerow, line 479: one cell per fieldname of THIS call. key is
\* the dict key the cell's value was taken from; the file itself holds val only.
DataRow(clean_data, names) ==
    [kind |-> "data",
     cells |-> [j \in 1..Len(names) |->
                  IF HasKey(clean_data, names[j])
                  THEN [key |-> names[j], val |-> Get(clean_data, names[j])]
                  ELSE Blank]]

\* DictWriter.writeheader, line 475
HeaderRow(names) == [kind |-> "header", cells |-> names]

\* lines 463-467: the header is wanted when opening the file for reading fails
FileExists(exists, rows) == exists

\* the whole function: the file (exists, rows) after write_to_csv(data)
write_to_csv(exists, rows, data) ==
    IF data = <<>> THEN [exists |-> exists, rows |-> rows]
    ELSE LET clean_data == CleanData(data)
             names == FieldnamesFor(clean_data)
             file_exists == FileExists(exists, rows)
         IN  [exists |-> TRUE,
              rows |-> (IF file_exists THEN rows ELSE <<HeaderRow(names)>>)
                       \o <<DataRow(clean_data, names)>>]

----------------------------------------------------------------------------
(* write_opportunities_to_csv, write_accessibility_to_csv, write_seo_to_csv, *)
(* src/main.py:484-577: the same body with three column lists                *)

NoFile == [exists |-> FALSE, rows |-> <<>>]

RECURSIVE IssueRows(_)
IssueRows(records) ==
    IF records = <<>> THEN <<>>
    ELSE <<[kind |-> "data", cells |-> Head(records)]>> \o IssueRows(Tail(records))

\* mutant: the store is opened for writing, not for appending
write_issues_to_csv_Truncate(file, store, records) ==
    IF records = <<>> THEN file
    ELSE [exists |-> TRUE,
          rows |-> <<[kind |-> "header", cells |-> store]>> \o IssueRows(records)]

write_issues_to_csv(file, store, records) ==
    IF records = <<>> THEN file
    ELSE [exists |-> TRUE,
          rows |-> (IF file.exists THEN file.rows
                    ELSE <<[kind |-> "header", cells |-> store]>>)
                   \o IssueRows(records)]

\* main.py:651-656 on the result of one target
WriteInsights(stores, result) ==
    [opportunities |-> write_issues_to_csv(stores.opportunities, "opportunities",
                                           Get(result, "_opportunities")),
     accessibility |-> write_issues_to_csv(stores.accessibility, "accessibility",
                                           Get(result, "_accessibility_issues")),
     seo |-> write_issues_to_csv(stores.seo, "seo_details",
                                 Get(result, "_seo_details"))]

----------------------------------------------------------------------------
(* the reporting surfaces that read the primary store *)

RECURSIVE DropDuplicates(_, _)
\* DataFrame.drop_duplicates(subset=['url'], keep='first') on the url column
DropDuplicates(col, seen) ==
    IF col = <<>> THEN <<>>
    ELSE IF Head(col) \in seen THEN DropDuplicates(Tail(col), seen)
         ELSE <<Head(col)>> \o DropDuplicates(Tail(col), seen \cup {Head(col)})

\* pd.read_csv: the first row names the columns. The read fails on a missing or
\* empty file and on a row with more fields than the first; a file whose first
\* row is a data row has no column named url, and every surface needs one.
Readable(exists, rows) ==
    /\ exists
    /\ rows # <<>>
    /\ rows[1].kind = "header"
    /\ \A i \in 2..Len(rows) : Len(rows[i].cells) <= Len(rows[1].cells)

\* df['url'] of the frame read from the store
UrlColumn(rows) == [i \in 1..(Len(rows) - 1) |-> rows[i + 1].cells[1].val]

NoReport == [surface |-> "none", ok |-> FALSE, urls |-> <<>>, count |-> 0]

\* generate_html_report.py:13-23, 675: len(df) and one table row per df row
generate_html_report(exists, rows) ==
    IF ~Readable(exists, rows) THEN [NoReport EXCEPT !.surface = "html"]
    ELSE LET df == DropDuplicates(UrlColumn(rows), {})
         IN  [surface |-> "html", ok |-> TRUE, urls |-> df, count |-> Len(df)]

\* generate_enhanced_html_report.py:155-168, 326
generate_enhanced_html_report(exists, rows) ==
    IF ~Readable(exists, rows) THEN [NoReport EXCEPT !.surface = "enhanced"]
    ELSE LET df == DropDuplicates(UrlColumn(rows), {})
         IN  [surface |-> "enhanced", ok |-> TRUE, urls |-> df, count |-> Len(df)]

\* generate_report.py:14-32: "Total URLs Analyzed" is len(df), one line per row
generate_summary_report(exists, rows) ==
    IF ~Readable(exists, rows) THEN [NoReport EXCEPT !.surface = "summary"]
    ELSE LET df == UrlColumn(rows)
         IN  [surface |-> "summary", ok |-> TRUE, urls |-> df, count |-> Len(df)]

\* generate_report.py:179-183: the frame goes to the sheet as read
export_to_excel(exists, rows) ==
    IF ~Readable(exists, rows) THEN [NoReport EXCEPT !.surface = "excel"]
    ELSE LET df == UrlColumn(rows)
         IN  [surface |-> "excel", ok |-> TRUE, urls |-> df, count |-> Len(df)]

----------------------------------------------------------------------------
(* read_urls_from_file, src/main.py:579-629 *)

\* A line is a sequence of tokens: " " is one whitespace character, "#" the
\* hash sign, "http://" and "https://" the accepted scheme prefixes, and the
\* other tokens text that is none of these.
RECURSIVE LStrip(_)
LStrip(line) == IF line # <<>> /\ Head(line) = " " THEN LStrip(Tail(line)) ELSE line

RECURSIVE RStrip(_)
RStrip(line) ==
    IF line # <<>> /\ line[Len(line)] = " "
    THEN RStrip(SubSeq(line, 1, Len(line) - 1)) ELSE line

\* line.strip(), line 595
Strip(line) == RStrip(LStrip(line))

\* lines 598-609: what the loop body does with one stripped line
ClassifyLine(clean_line) ==
    IF clean_line = <<>> THEN "skip"
    ELSE IF Head(clean_line) = "#" THEN "skip"
    ELSE IF Head(clean_line) \in {"http://", "https://"} THEN "url"
    ELSE "invalid"

----------------------------------------------------------------------------
(* sample inputs *)

MaxWrites == 2

Urls == {"https://a.example", "https://b.example"}

\* driver.current_url.split("?")[0], line 116
FinalUrl(url) == "https://pagespeed.web.dev/analysis"

Audit(score, displayValue, numericValue, savings) ==
    [score |-> score, displayValue |-> displayValue,
     numericValue |-> numericValue, savings |-> savings]

Category(key, title, score) == [key |-> key, title |-> title, score |-> score]

\* the four standard categories, metrics with and without a display string,
\* and one audit of each miner's catalog
PFull ==
    [truthy |-> TRUE,
     categories |-> << Category("performance", "Performance", 850),
                       Category("accessibility", "Accessibility", 1000),
                       Category("best-practices", "Best Practices", 570),
                       Category("seo", "SEO", 920) >>,
     audits |-> << <<"first-contentful-paint", Audit(900, << <<12, 1, " s">> >>, 1234, <<>>)>>,
                   <<"total-blocking-time", Audit(1000, <<>>, 150, <<>>)>>,
                   <<"cumulative-layout-shift", Audit(1000, <<>>, 0, <<>>)>>,
                   <<"speed-index", Audit(Null, <<>>, Null, <<>>)>>,
                   <<"uses-http2", Audit(900, <<>>, Null, <<1200>>)>>,
                   <<"color-contrast", Audit(0, <<>>, Null, <<>>)>>,
                   <<"meta-description", Audit(Null, <<>>, Null, <<>>)>> >>]

\* a payload with a category outside the standard four
PPwa ==
    [truthy |-> TRUE,
     categories |-> << Category("performance", "Performance", 290),
                       Category("pwa", "PWA", 300) >>,
     audits |-> <<>>]

\* a payload object that is truthy but has no scored category and no metric
\* audit: {"categories": {"performance": {"title": "Performance", "score": null}}}
PBare ==
    [truthy |-> TRUE,
     categories |-> << Category("performance", "Performance", Null) >>,
     audits |-> <<>>]

SamplePayloads == {PFull, PPwa, PBare}

----------------------------------------------------------------------------
(* idle values of the parts a specification does not exercise *)

UrlIdle ==
    /\ urlsFile = [exists |-> FALSE, lines |-> <<>>]
    /\ linePos = 0 /\ urls = <<>> /\ invalid_lines = <<>> /\ printed = <<>>
    /\ loadPc = "idle" /\ test_urls = <<>>

CsvIdle ==
    /\ csvExists = FALSE /\ csvRows = <<>> /\ csvCalls = 0 /\ report = NoReport

NoWindow == [mobile |-> NoPayload, desktop |-> NoPayload]

NoStores == [opportunities |-> NoFile, accessibility |-> NoFile, seo |-> NoFile]

BatchIdle ==
    /\ secondary = NoStores /\ pc = "idle" /\ idx = 0 /\ sessions = {}
    /\ window = NoWindow /\ elapsed = 0
    /\ mobile_json = NoPayload /\ desktop_json = NoPayload
    /\ page_speed_scores = <<>> /\ delay = 0 /\ delayCount = 0
    /\ attempted = {} /\ failed = {} /\ written = {}

ExIdle ==
    /\ exPayload = NoPayload /\ exDevice = "mobile" /\ exData = <<>>
    /\ exPc = "idle"

NoLists == [opportunities |-> <<>>, accessibility |-> <<>>, seo |-> <<>>]

MineIdle ==
    /\ mnPayload = NoPayload /\ mnDevice = "mobile" /\ mnUrl = ""
    /\ mnOut = NoLists /\ mnPc = "idle"

ClsIdle ==
    /\ cColumn = "" /\ cDevice = "mobile" /\ cValue = <<>> /\ cClass = <<>>
    /\ cPc = "idle"

NoDom == [mobile |-> "none", buttons |-> 0, desktop |-> "none"]

LegacyIdle ==
    /\ lgDom = NoDom /\ lgResult = <<>> /\ lgOpen = FALSE /\ lgPc = "idle"

FlowIdle ==
    /\ wfPc = "idle" /\ wfSteps = <<>> /\ wfReturn = "none" /\ wfRuns = 0
    /\ htmlExists = FALSE /\ wfIssued = <<>>

----------------------------------------------------------------------------
(* the primary store under a sequence of write_to_csv calls and reports *)

\* pagespeed_results.csv is absent, or exists and is empty
CsvInit ==
    /\ csvExists \in BOOLEAN
    /\ csvRows = <<>>
    /\ csvCalls = 0
    /\ report = NoReport

\* main.py:646-648 with the result of one target
WriteToCsv ==
    \E url \in Urls, mobile, desktop \in {PFull, PPwa, NoPayload} :
       /\ mobile.truthy \/ desktop.truthy
       /\ csvCalls < MaxWrites
       /\ LET data == ExtractResults(url, FinalUrl(url), mobile, desktop)
              file == write_to_csv(csvExists, csvRows, data)
          IN  /\ csvExists' = file.exists
              /\ csvRows' = file.rows
       /\ csvCalls' = csvCalls + 1
       /\ UNCHANGED report

GenerateHtmlReport ==
    /\ report' = generate_html_report(csvExists, csvRows)
    /\ UNCHANGED <<csvExists, csvRows, csvCalls>>

GenerateEnhancedHtmlReport ==
    /\ report' = generate_enhanced_html_report(csvExists, csvRows)
    /\ UNCHANGED <<csvExists, csvRows, csvCalls>>

GenerateSummaryReport ==
    /\ report' = generate_summary_report(csvExists, csvRows)
    /\ UNCHANGED <<csvExists, csvRows, csvCalls>>

ExportToExcel ==
    /\ report' = export_to_excel(csvExists, csvRows)
    /\ UNCHANGED <<csvExists, csvRows, csvCalls>>

vars == <<csvVars, urlVars, exVars, batchVars, mineVars, clsVars, lgVars, wfVars>>

InitCsv == CsvInit /\ UrlIdle /\ ExIdle /\ BatchIdle /\ MineIdle /\ ClsIdle /\ LegacyIdle /\ FlowIdle

NextCsv ==
    \/ WriteToCsv /\ UNCHANGED <<urlVars, exVars, batchVars, mineVars, clsVars, lgVars, wfVars>>
    \/ GenerateHtmlReport /\ UNCHANGED <<urlVars, exVars, batchVars, mineVars, clsVars, lgVars, wfVars>>
    \/ GenerateEnhancedHtmlReport /\ UNCHANGED <<urlVars, exVars, batchVars, mineVars, clsVars, lgVars, wfVars>>
    \/ GenerateSummaryReport /\ UNCHANGED <<urlVars, exVars, batchVars, mineVars, clsVars, lgVars, wfVars>>
    \/ ExportToExcel /\ UNCHANGED <<urlVars, exVars, batchVars, mineVars, clsVars, lgVars, wfVars>>

SpecCsv == InitCsv /\ [][NextCsv]_vars

DataRowCount == Cardinality({i \in 1..Len(csvRows) : csvRows[i].kind = "data"})

HeaderRowCount == Cardinality({i \in 1..Len(csvRows) : csvRows[i].kind = "header"})

\* C1: after any sequence of write_to_csv calls on one file (absent or empty
\* before the first call) the file holds exactly one header row, it is the
\* first row, and there is one data row per call.
C1_OneHeaderFirst ==
    csvCalls > 0 =>
        /\ csvRows[1].kind = "header"
        /\ HeaderRowCount = 1
        /\ DataRowCount = csvCalls

\* C2: in a file that starts with its header row, every value of every data
\* row stands at a position whose header cell names the key of that value.
C2_RowsAligned ==
    (csvRows # <<>> /\ csvRows[1].kind = "header") =>
        \A i \in 2..Len(csvRows) :
            \A j \in 1..Len(csvRows[i].cells) :
                csvRows[i].cells[j].key # "" =>
                    /\ j <= Len(csvRows[1].cells)
                    /\ csvRows[1].cells[j] = csvRows[i].cells[j].key

DistinctUrls(col) == {col[i] : i \in 1..Len(col)}

\* C5: whichever reporting surface ran, it presented one row per identity URL
\* of the store, the first one written, and a URL count equal to the number
\* of distinct URLs.
C5_EveryReportDeduplicates ==
    report.ok =>
        /\ report.urls = DropDuplicates(UrlColumn(csvRows), {})
        /\ report.count = Cardinality(DistinctUrls(UrlColumn(csvRows)))

----------------------------------------------------------------------------
(* read_urls_from_file over the lines of urls.txt *)

MaxLines == 3

\* blank, whitespace only, comment, indented comment that quotes a URL, two
\* URLs (one padded with whitespace), a wrong scheme, an upper-case scheme,
\* text before a URL
SampleLines ==
    { <<>>, <<" ", " ">>, <<"#", "a">>, <<" ", "#", "http://", "a">>,
      <<"http://", "a">>, <<" ", "https://", "b", " ">>,
      <<"ftp://", "a">>, <<"HTTP://", "a">>, <<"a", " ", "http://", "a">> }

RECURSIVE SeqsUpTo(_, _)
SeqsUpTo(S, n) ==
    IF n = 0 THEN {<<>>}
    ELSE LET shorter == SeqsUpTo(S, n - 1)
         IN  shorter \cup {Append(q, x) : q \in shorter, x \in S}

UrlInit ==
    /\ urlsFile \in [exists : BOOLEAN, lines : SeqsUpTo(SampleLines, MaxLines)]
    /\ urlsFile.exists \/ urlsFile.lines = <<>>
    /\ linePos = 0 /\ urls = <<>> /\ invalid_lines = <<>> /\ printed = <<>>
    /\ loadPc = "start" /\ test_urls = <<>>

\* line 592: open(); a missing file is FileNotFoundError, lines 623-626
OpenUrlsFile ==
    /\ loadPc = "start"
    /\ IF urlsFile.exists
       THEN loadPc' = "loop" /\ UNCHANGED test_urls
       ELSE loadPc' = "not_found" /\ test_urls' = <<>>
    /\ UNCHANGED <<urlsFile, linePos, urls, invalid_lines, printed>>

\* one iteration of the loop, lines 593-609
ReadLine ==
    /\ loadPc = "loop"
    /\ linePos < Len(urlsFile.lines)
    /\ LET line_num == linePos + 1
           clean_line == Strip(urlsFile.lines[line_num])
           what == ClassifyLine(clean_line)
       IN  /\ linePos' = line_num
           /\ urls' = IF what = "url" THEN Append(urls, clean_line) ELSE urls
           /\ invalid_lines' = IF what = "invalid"
                               THEN Append(invalid_lines,
                                           [line_num |-> line_num, text |-> clean_line])
                               ELSE invalid_lines
    /\ UNCHANGED <<urlsFile, loadPc, test_urls, printed>>

\* lines 612-621: the report and the return. The invalid lines are printed
\* inside "if urls:" (lines 613-617); the else branch prints only
\* "No valid URLs found" (line 619)
ReturnUrls ==
    /\ loadPc = "loop"
    /\ linePos = Len(urlsFile.lines)
    /\ loadPc' = "done"
    /\ printed' = IF urls # <<>> THEN invalid_lines ELSE <<>>
    /\ test_urls' = urls
    /\ UNCHANGED <<urlsFile, linePos, urls, invalid_lines>>

\* lines 627-629: any other exception while reading (an I/O error) returns []
ReadError ==
    /\ loadPc = "loop"
    /\ loadPc' = "error"
    /\ test_urls' = <<>>
    /\ UNCHANGED <<urlsFile, linePos, urls, invalid_lines, printed>>

InitUrls == UrlInit /\ CsvIdle /\ ExIdle /\ BatchIdle /\ MineIdle /\ ClsIdle /\ LegacyIdle /\ FlowIdle

NextUrls ==
    \/ OpenUrlsFile /\ UNCHANGED <<csvVars, exVars, batchVars, mineVars, clsVars, lgVars, wfVars>>
    \/ ReadLine /\ UNCHANGED <<csvVars, exVars, batchVars, mineVars, clsVars, lgVars, wfVars>>
    \/ ReturnUrls /\ UNCHANGED <<csvVars, exVars, batchVars, mineVars, clsVars, lgVars, wfVars>>
    \/ ReadError /\ UNCHANGED <<csvVars, exVars, batchVars, mineVars, clsVars, lgVars, wfVars>>

SpecUrls == InitUrls /\ [][NextUrls]_vars

\* the line without its leading and trailing whitespace, by position
Stripped(line) ==
    LET solid == {i \in 1..Len(line) : line[i] # " "}
    IN  IF solid = {} THEN <<>>
        ELSE SubSeq(line, CHOOSE i \in solid : \A j \in solid : i <= j,
                          CHOOSE i \in solid : \A j \in solid : i >= j)

Accepted(line) ==
    LET t == Stripped(line)
    IN  t # <<>> /\ t[1] # "#" /\ t[1] \in {"http://", "https://"}

Rejected(line) ==
    LET t == Stripped(line)
    IN  t # <<>> /\ t[1] # "#" /\ t[1] \notin {"http://", "https://"}

RECURSIVE AcceptedOf(_)
AcceptedOf(lines) ==
    IF lines = <<>> THEN <<>>
    ELSE (IF Accepted(Head(lines)) THEN <<Stripped(Head(lines))>> ELSE <<>>)
         \o AcceptedOf(Tail(lines))

RejectedNumbers(lines) == {i \in 1..Len(lines) : Rejected(lines[i])}

\* the returned list: during the load no accepted line is dropped, and a
\* completed load returns exactly the accepted lines, stripped, in file order
\* with duplicates kept; every rejected line is recorded with its number
LoadKeepsAcceptedLines ==
    /\ loadPc = "loop" => urls = AcceptedOf(SubSeq(urlsFile.lines, 1, linePos))
    /\ loadPc = "done" =>
        /\ test_urls = AcceptedOf(urlsFile.lines)
        /\ {invalid_lines[i].line_num : i \in 1..Len(invalid_lines)}
              = RejectedNumbers(urlsFile.lines)

\* C9: a completed load returns exactly the accepted lines, stripped, in file
\* order with duplicates kept, and every line that failed validation has been
\* reported (printed with its line number); no rejected line aborts the load
\* or drops another line.
C9_LoadReturnsAcceptedLines ==
    /\ LoadKeepsAcceptedLines
    /\ loadPc = "done" =>
        {printed[i].line_num : i \in 1..Len(printed)}
            = RejectedNumbers(urlsFile.lines)

----------------------------------------------------------------------------
(* extract_lighthouse_data on one payload *)

\* scores as Lighthouse reports them (two decimals), a few with a third
\* decimal, and null
SampleScores ==
    {10 * h : h \in 0..100} \cup {5, 855, 856, 994, 995, 999} \cup {Null}

\* one category, or the same followed by a second one
SampleCategories ==
    {<<Category("performance", "Performance", s)>> : s \in SampleScores}
    \cup {<<Category("performance", "Performance", s), Category("seo", "SEO", t)>> :
              s \in SampleScores, t \in {Null, 855, 1000}}

\* one audit as the payload may hold it: with a display string, with a
\* numeric value only (0, below and from 1000 ms, rounding ties), with both,
\* with neither
SampleAudits ==
    { Audit(1000, << <<12, 1, " s">> >>, Null, <<>>),
      Audit(1000, << <<12, 1, " s">> >>, 1234, <<>>),
      Audit(1000, <<>>, 0, <<>>),
      Audit(900, <<>>, 52, <<>>),
      Audit(900, <<>>, 999, <<>>),
      Audit(500, <<>>, 1000, <<>>),
      Audit(500, <<>>, 1005, <<>>),
      Audit(500, <<>>, 1125, <<>>),
      Audit(500, <<>>, 1234, <<>>),
      Audit(500, <<>>, 2345, <<>>),
      Audit(Null, <<>>, Null, <<>>) }

\* no audit, the audits of PFull, or one audit under a catalog key or under
\* a key outside the catalog
SampleAuditDicts ==
    {<<>>, PFull.audits}
    \cup { << <<k, a>> >> :
              k \in {metrics_mapping[i][1] : i \in 1..Len(metrics_mapping)}
                     \cup {"server-response-time"},
              a \in SampleAudits }

ExInit ==
    /\ exPayload \in [truthy : {TRUE}, categories : SampleCategories,
                      audits : SampleAuditDicts]
    /\ exDevice \in Devices
    /\ exData = <<>>
    /\ exPc = "ready"

\* main.py:131 / 153: the call on one device's payload
Extract ==
    /\ exPc = "ready"
    /\ exData' = extract_lighthouse_data(exPayload, exDevice)
    /\ exPc' = "done"
    /\ UNCHANGED <<exPayload, exDevice>>

InitExtract == ExInit /\ CsvIdle /\ UrlIdle /\ BatchIdle /\ MineIdle /\ ClsIdle /\ LegacyIdle /\ FlowIdle

NextExtract == Extract /\ UNCHANGED <<csvVars, urlVars, batchVars, mineVars, clsVars, lgVars, wfVars>>

SpecExtract == InitExtract /\ [][NextExtract]_vars

\* v is an integer nearest to score * 100, score being s thousandths
NearestPercent(v, s) == 10 * v - s <= 5 /\ s - 10 * v <= 5

\* C10: every category with a non-null score yields the field
\* {device}_{category} holding the integer nearest to score * 100, within
\* 0..100; a category with a null score yields no field.
C10_ScoreIsRounded ==
    exPc = "done" =>
        \A i \in 1..Len(exPayload.categories) :
            LET c == exPayload.categories[i]
                k == exDevice \o "_" \o LowerUnderscore(c.title)
            IN  IF c.score = Null THEN ~HasKey(exData, k)
                ELSE /\ HasKey(exData, k)
                     /\ Get(exData, k) \in 0..100
                     /\ NearestPercent(Get(exData, k), c.score)

\* C11: for each of the 7 catalog metrics the key {device}_{metric} is
\* emitted exactly when the audit is present with a display string or a
\* numeric value (0 included); an absent audit, or one with neither, gives no
\* key, and no key appears for an audit outside the catalog.
C11_MetricKeyIffUsable ==
    exPc = "done" =>
        /\ \A i \in 1..Len(metrics_mapping) :
              LET audit_key == metrics_mapping[i][1]
                  k == exDevice \o "_" \o metrics_mapping[i][2]
                  present == \E j \in 1..Len(exPayload.audits) :
                                /\ exPayload.audits[j][1] = audit_key
                                /\ \/ exPayload.audits[j][2].displayValue # <<>>
                                   \/ exPayload.audits[j][2].numericValue \in Nat
              IN  HasKey(exData, k) <=> present
        /\ Len(exData) <= Len(exPayload.categories) + Len(metrics_mapping)

\* a layout shift of 0 without a display string has been extracted
C11_Witness ==
    /\ exPc = "done"
    /\ \E j \in 1..Len(exPayload.audits) :
          /\ exPayload.audits[j][1] = "cumulative-layout-shift"
          /\ exPayload.audits[j][2].displayValue = <<>>
          /\ exPayload.audits[j][2].numericValue = 0
    /\ HasKey(exData, exDevice \o "_cumulative_layout_shift")

\* C12: an emitted metric is the payload's display string when there is one;
\* otherwise layout shift is the number with 3 decimals and no unit, and any
\* other metric is value/1000 with 2 decimals and " s" from 1000 up, else
\* the value with 0 decimals and " ms".
C12_DisplayVerbatimElseSynthesized ==
    exPc = "done" =>
        \A i \in 1..Len(metrics_mapping), j \in 1..Len(exPayload.audits) :
            LET audit_key == metrics_mapping[i][1]
                k == exDevice \o "_" \o metrics_mapping[i][2]
                audit == exPayload.audits[j][2]
                n == audit.numericValue
            IN  (exPayload.audits[j][1] = audit_key /\ HasKey(exData, k)) =>
                    IF audit.displayValue # <<>>
                    THEN Get(exData, k) = audit.displayValue[1]
                    ELSE IF audit_key = "cumulative-layout-shift"
                    THEN Get(exData, k) = <<n, 3, "">>
                    ELSE IF n >= 1000
                    THEN /\ Get(exData, k)[2] = 2 /\ Get(exData, k)[3] = " s"
                         /\ 10 * Get(exData, k)[1] - n \in -5..5
                    ELSE Get(exData, k) = <<n, 0, " ms">>

\* a speed index of 2345 ms without a display string came out as "2.35 s"
C12_Witness ==
    /\ exPc = "done"
    /\ exPayload.audits = << <<"speed-index", Audit(500, <<>>, 2345, <<>>)>> >>
    /\ Get(exData, exDevice \o "_speed_index") = <<235, 2, " s">>

----------------------------------------------------------------------------
(* the batch loop, src/main.py:631-666, and get_pagespeed_results, 12-184 *)

MaxTargets == 2

max_additional_wait == 60
wait_interval == 5

\* random.randint(5, 10), line 664
DelayRange == 5..10

\* mutant: the delay is taken after the last URL too
DelayWanted_Always(i, n) == TRUE

\* line 663: no delay after the last URL
DelayWanted(i, n) == i < n

\* mutant: the finally block does not quit the driver
CloseSession_Leak(open, i) == open

\* driver.quit(), line 183
CloseSession(open, i) == open \ {i}

\* what the page may publish for a device: a report (the two devices differ
\* in categories and scores), or one without a scored category (an analysis
\* that ended in a runtime error)
PagePayloads(device) ==
    IF device = "mobile" THEN {PFull, PBare} ELSE {PPwa, PBare}

BatchInit ==
    /\ test_urls \in SeqsUpTo(Urls, MaxTargets) \ {<<>>}
    /\ urlsFile = [exists |-> FALSE, lines |-> <<>>]
    /\ linePos = 0 /\ urls = <<>> /\ invalid_lines = <<>> /\ printed = <<>> /\ loadPc = "idle"
    /\ secondary = NoStores /\ pc = "loop" /\ idx = 1 /\ sessions = {}
    /\ window = NoWindow /\ elapsed = 0
    /\ mobile_json = NoPayload /\ desktop_json = NoPayload
    /\ page_speed_scores = <<>> /\ delay = 0 /\ delayCount = 0
    /\ attempted = {} /\ failed = {} /\ written = {}

\* line 642-644: the next target, get_pagespeed_results is called
StartTarget ==
    /\ pc = "loop" /\ idx <= Len(test_urls)
    /\ pc' = "start_browser"
    /\ attempted' = attempted \cup {idx}
    /\ window' = NoWindow /\ elapsed' = 0
    /\ mobile_json' = NoPayload /\ desktop_json' = NoPayload
    /\ page_speed_scores' = <<>> /\ delay' = 0
    /\ UNCHANGED <<secondary, idx, sessions, delayCount, failed, written, csvVars>>

\* the loop is over, lines 667-673
FinishBatch ==
    /\ pc = "loop" /\ idx > Len(test_urls)
    /\ pc' = "done"
    /\ UNCHANGED <<secondary, idx, sessions, window, elapsed, mobile_json,
                   desktop_json, page_speed_scores, delay, delayCount, attempted,
                   failed, written, csvVars>>

\* lines 60-61, outside the try block: the driver starts, or the call raises
\* and nothing catches it (the __main__ loop has no handler)
StartBrowser ==
    /\ pc = "start_browser"
    /\ \/ sessions' = sessions \cup {idx} /\ pc' = "stealth" /\ UNCHANGED failed
       \/ pc' = "crashed" /\ failed' = failed \cup {idx} /\ UNCHANGED sessions
    /\ UNCHANGED <<secondary, idx, window, elapsed, mobile_json, desktop_json,
                   page_speed_scores, delay, delayCount, attempted, written, csvVars>>

\* lines 64-66, still outside the try block
StealthScript ==
    /\ pc = "stealth"
    /\ \/ pc' = "navigate" /\ UNCHANGED failed
       \/ pc' = "crashed" /\ failed' = failed \cup {idx}
    /\ UNCHANGED <<secondary, idx, sessions, window, elapsed, mobile_json,
                   desktop_json, page_speed_scores, delay, delayCount, attempted,
                   written, csvVars>>

\* lines 178-180: the except clause, entered from inside the try block
Caught ==
    /\ pc' = "finally"
    /\ page_speed_scores' = <<>>
    /\ failed' = failed \cup {idx}

\* line 72: driver.get
Navigate ==
    /\ pc = "navigate"
    /\ \/ pc' = "wait_first" /\ UNCHANGED <<page_speed_scores, failed>>
       \/ Caught
    /\ UNCHANGED <<secondary, idx, sessions, window, elapsed, mobile_json,
                   desktop_json, delay, delayCount, attempted, written, csvVars>>

\* the page publishes one device's payload; it stays once published
PayloadArrives ==
    /\ pc \in {"wait_first", "poll"}
    /\ \E device \in {"mobile", "desktop"} : \E payload \in PagePayloads(device) :
          /\ ~window[device].truthy
          /\ window' = [window EXCEPT ![device] = payload]
    /\ UNCHANGED <<secondary, pc, idx, sessions, elapsed, mobile_json, desktop_json,
                   page_speed_scores, delay, delayCount, attempted, failed,
                   written, csvVars>>

\* lines 80-84: WebDriverWait(driver, 180).until(mobile || desktop); a
\* TimeoutException when neither shows up, or the script call raises
WaitFirst ==
    /\ pc = "wait_first"
    /\ \/ /\ window.mobile.truthy \/ window.desktop.truthy
          /\ pc' = "poll" /\ UNCHANGED <<page_speed_scores, failed>>
       \/ /\ ~window.mobile.truthy /\ ~window.desktop.truthy
          /\ Caught
       \/ Caught
    /\ elapsed' = 0
    /\ UNCHANGED <<secondary, idx, sessions, window, mobile_json, desktop_json,
                   delay, delayCount, attempted, written, csvVars>>

\* mutant: the loop never breaks
BothReady_Never(mobile, desktop) == FALSE

\* line 100: if mobile_json and desktop_json
BothReady(mobile, desktop) == mobile.truthy /\ desktop.truthy

\* lines 96-111: one iteration of the wait-for-both loop
Poll ==
    /\ pc = "poll" /\ elapsed < max_additional_wait
    /\ \/ /\ mobile_json' = window.mobile /\ desktop_json' = window.desktop
          /\ IF BothReady(window.mobile, window.desktop)
             THEN pc' = "extract" /\ UNCHANGED elapsed
             ELSE pc' = "poll" /\ elapsed' = elapsed + wait_interval
          /\ UNCHANGED <<page_speed_scores, failed>>
       \/ Caught /\ UNCHANGED <<mobile_json, desktop_json, elapsed>>
    /\ UNCHANGED <<secondary, idx, sessions, window, delay, delayCount, attempted,
                   written, csvVars>>

\* line 96: the loop condition fails after 60 seconds
PollExhausted ==
    /\ pc = "poll" /\ elapsed >= max_additional_wait
    /\ pc' = "extract"
    /\ UNCHANGED <<secondary, idx, sessions, window, elapsed, mobile_json,
                   desktop_json, page_speed_scores, delay, delayCount, attempted,
                   failed, written, csvVars>>

\* lines 113-176: both payloads are read again and the result is built
ExtractAvailable ==
    /\ pc = "extract"
    /\ \/ /\ mobile_json' = window.mobile /\ desktop_json' = window.desktop
          /\ page_speed_scores' =
                ExtractResults(test_urls[idx], FinalUrl(test_urls[idx]),
                               window.mobile, window.desktop)
          /\ pc' = "finally" /\ UNCHANGED failed
       \/ Caught /\ UNCHANGED <<mobile_json, desktop_json>>
    /\ UNCHANGED <<secondary, idx, sessions, window, elapsed, delay, delayCount,
                   attempted, written, csvVars>>

\* lines 181-184: finally
QuitBrowser ==
    /\ pc = "finally"
    /\ sessions' = CloseSession(sessions, idx)
    /\ pc' = "returned"
    /\ UNCHANGED <<secondary, idx, window, elapsed, mobile_json, desktop_json,
                   page_speed_scores, delay, delayCount, attempted, failed,
                   written, csvVars>>

\* lines 646-660: the four writers on a truthy result, nothing on None
WriteResults ==
    /\ pc = "returned"
    /\ IF page_speed_scores # <<>>
       THEN LET file == write_to_csv(csvExists, csvRows, page_speed_scores)
            IN  /\ csvExists' = file.exists
                /\ csvRows' = file.rows
                /\ csvCalls' = csvCalls + 1
                /\ secondary' = WriteInsights(secondary, page_speed_scores)
                /\ written' = written \cup {idx}
       ELSE UNCHANGED <<csvExists, csvRows, csvCalls, secondary, written>>
    /\ pc' = "after_write"
    /\ UNCHANGED <<report, idx, sessions, window, elapsed, mobile_json,
                   desktop_json, page_speed_scores, delay, delayCount, attempted,
                   failed>>

\* lines 663-666
StartDelay ==
    /\ pc = "after_write"
    /\ IF DelayWanted(idx, Len(test_urls))
       THEN /\ delay' \in DelayRange
            /\ delayCount' = delayCount + 1
            /\ pc' = "delay" /\ UNCHANGED idx
       ELSE /\ pc' = "loop" /\ idx' = idx + 1
            /\ UNCHANGED <<delay, delayCount>>
    /\ UNCHANGED <<secondary, sessions, window, elapsed, mobile_json, desktop_json,
                   page_speed_scores, attempted, failed, written, csvVars>>

\* time.sleep(delay) returns
EndDelay ==
    /\ pc = "delay"
    /\ pc' = "loop" /\ idx' = idx + 1 /\ delay' = 0
    /\ UNCHANGED <<secondary, sessions, window, elapsed, mobile_json, desktop_json,
                   page_speed_scores, delayCount, attempted, failed, written, csvVars>>

InitBatch == BatchInit /\ CsvIdle /\ ExIdle /\ MineIdle /\ ClsIdle /\ LegacyIdle /\ FlowIdle

UrlFrame == UNCHANGED <<urlVars, exVars, mineVars, clsVars, lgVars, wfVars>>

NextBatch ==
    \/ StartTarget /\ UrlFrame
    \/ FinishBatch /\ UrlFrame
    \/ StartBrowser /\ UrlFrame
    \/ StealthScript /\ UrlFrame
    \/ Navigate /\ UrlFrame
    \/ PayloadArrives /\ UrlFrame
    \/ WaitFirst /\ UrlFrame
    \/ Poll /\ UrlFrame
    \/ PollExhausted /\ UrlFrame
    \/ ExtractAvailable /\ UrlFrame
    \/ QuitBrowser /\ UrlFrame
    \/ WriteResults /\ UrlFrame
    \/ StartDelay /\ UrlFrame
    \/ EndDelay /\ UrlFrame

SpecBatch == InitBatch /\ [][NextBatch]_vars

\* C3: no target's failure aborts the batch: a failed target gets no row, and
\* a batch that has stopped has attempted every target of the list.
C3_FailureNeverAborts ==
    /\ pc # "crashed"
    /\ failed \cap written = {}
    /\ pc = "done" => attempted = 1..Len(test_urls)

\* C4: every data row of the primary store holds at least one value besides
\* url and final_url, that is, something was extracted for some device.
C4_RowNeedsFragment ==
    \A i \in 1..Len(csvRows) :
        csvRows[i].kind = "data" =>
            \E j \in 3..Len(csvRows[i].cells) : csvRows[i].cells[j].key # ""

StartsWith(k, prefix) ==
    Len(k) >= Len(prefix) /\ SubSeq(k, 1, Len(prefix)) = prefix

\* the keys a record of device dev alone may hold
PartialKey(k, dev) == k \in {"url", "final_url"} \/ StartsWith(k, dev \o "_")

AllOfDevice(records, dev) ==
    \A n \in 1..Len(records) : records[n].device_type = dev

\* C6: when the extraction step found the payload of one device only, the
\* call returns a record (the target has not failed), the record holds url,
\* final_url and keys of that device only, its issue lists hold records of
\* that device only, and the row appended for it has no value in any column
\* of the absent device.
C6_PartialResultKept ==
    \A dev \in Devices :
        LET got  == IF dev = "mobile" THEN mobile_json ELSE desktop_json
            miss == IF dev = "mobile" THEN desktop_json ELSE mobile_json
            rec  == CleanData(page_speed_scores)
        IN  ( /\ pc \in {"finally", "returned", "after_write"}
              /\ idx \notin failed
              /\ got.truthy /\ ~miss.truthy )
            => /\ page_speed_scores # <<>>
               /\ HasKey(rec, "url") /\ HasKey(rec, "final_url")
               /\ \A n \in 1..Len(rec) : PartialKey(rec[n][1], dev)
               /\ AllOfDevice(Get(page_speed_scores, "_opportunities"), dev)
               /\ AllOfDevice(Get(page_speed_scores, "_accessibility_issues"), dev)
               /\ AllOfDevice(Get(page_speed_scores, "_seo_details"), dev)
               /\ pc = "after_write" =>
                    /\ idx \in written
                    /\ LET row == csvRows[Len(csvRows)].cells
                       IN  /\ row[1].val = test_urls[idx]
                           /\ \A j \in 1..Len(row) :
                                 row[j].key # "" => PartialKey(row[j].key, dev)

\* the full 60 seconds were waited, desktop never came, the mobile row is written
C6_Witness ==
    /\ pc = "after_write" /\ idx \in written
    /\ elapsed = max_additional_wait
    /\ mobile_json.truthy /\ ~desktop_json.truthy
    /\ HasKey(page_speed_scores, "mobile_performance")

\* C7: at most one browser session is open, and it is the current target's;
\* whenever get_pagespeed_results has returned (normally or through its
\* except clause) and until the next call has started its browser no session
\* is open; and while target idx is processed every earlier target is
\* finished and no later one has been started.
C7_OneSessionAtATime ==
    /\ Cardinality(sessions) <= 1
    /\ sessions \subseteq {idx}
    /\ pc \in {"loop", "start_browser", "returned", "after_write", "delay", "done"}
          => sessions = {}
    /\ attempted = IF pc \in {"loop", "done"} THEN 1..(idx - 1) ELSE 1..idx
    /\ \A j \in 1..(idx - 1) : j \in written \cup failed
    /\ written \cup failed \subseteq attempted

\* the second target's session is open after the first target failed inside
\* the try block
C7_Witness ==
    /\ idx = 2 /\ pc = "navigate" /\ sessions = {2}
    /\ 1 \in failed /\ 1 \notin written

SpecBatchLive ==
    /\ InitBatch /\ [][NextBatch]_vars
    /\ WF_vars(Poll /\ UrlFrame) /\ WF_vars(PollExhausted /\ UrlFrame)

\* C25: the wait for both payloads ends. Every iteration that does not leave
\* the loop adds 5 seconds to elapsed, which never passes 60 (at most 12
\* iterations); the loop is left at once when both payloads are there, and
\* otherwise when the 60 seconds are over; leaving it leads to the extraction
\* step, unless a browser call raised, which ends the target as a failure.
\* The wait before it ends with a first payload or with its timeout.
C25_WaitTerminates ==
    /\ [][ /\ elapsed \in {wait_interval * n : n \in 0..12}
           /\ elapsed <= max_additional_wait
           /\ (pc = "poll" /\ pc' = "poll" /\ window' = window) =>
                  /\ elapsed' = elapsed + wait_interval
                  /\ ~(window.mobile.truthy /\ window.desktop.truthy)
           /\ (pc = "poll" /\ pc' # "poll") =>
                  \/ /\ pc' = "extract"
                     /\ \/ mobile_json'.truthy /\ desktop_json'.truthy
                        \/ elapsed = max_additional_wait
                  \/ pc' = "finally" /\ idx \in failed'
           /\ (pc = "wait_first" /\ pc' # "wait_first") =>
                  \/ pc' = "poll" /\ (window.mobile.truthy \/ window.desktop.truthy)
                  \/ pc' = "finally" /\ idx \in failed' ]_vars
    /\ (pc = "poll") ~> (pc \in {"extract", "finally"})

\* the loop was left after twelve iterations with the mobile payload alone
C25_Witness ==
    /\ pc = "extract" /\ elapsed = max_additional_wait
    /\ window.mobile.truthy /\ ~window.desktop.truthy

\* the data rows of the primary store, in file order
DataRows == SelectSeq(csvRows, LAMBDA r : r.kind = "data")

\* the i-th target, in input order, among those a row was written for
NthWritten(i) ==
    CHOOSE j \in written : Cardinality({k \in written : k < j}) = i - 1

\* the store holds one row per target written so far, in input order
RowsFollowInput ==
    /\ Len(DataRows) = Cardinality(written)
    /\ \A i \in 1..Len(DataRows) :
          DataRows[i].cells[1].val = test_urls[NthWritten(i)]

\* C26: a run attempts every URL of the list once, in input order, a failed
\* one included and none again; when the run has ended every URL has been
\* attempted, and the store holds one row per successful target in input
\* order.
C26_EveryUrlOnceInOrder ==
    /\ \E k \in 0..Len(test_urls) : attempted = 1..k
    /\ RowsFollowInput
    /\ pc \in {"done", "crashed"} => attempted = 1..Len(test_urls)

\* the last rows of an issue store are the records of this list
EndsWithRecords(file, records) ==
    records # <<>> =>
        /\ file.exists /\ Len(file.rows) > Len(records)
        /\ SubSeq(file.rows, Len(file.rows) - Len(records) + 1, Len(file.rows))
              = IssueRows(records)

\* C28: no column of the primary store and no cell of it comes from a key
\* starting with '_'; after write_to_csv the result still carries its three
\* issue lists, and the secondary writers called next have appended every
\* record of them.
C28_InternalKeysStayOut ==
    /\ \A i \in 1..Len(csvRows) : \A j \in 1..Len(csvRows[i].cells) :
          IF csvRows[i].kind = "header"
          THEN ~StartsWith(csvRows[i].cells[j], "_")
          ELSE ~StartsWith(csvRows[i].cells[j].key, "_")
    /\ (pc = "after_write" /\ idx \in written) =>
          /\ HasKey(page_speed_scores, "_opportunities")
          /\ HasKey(page_speed_scores, "_accessibility_issues")
          /\ HasKey(page_speed_scores, "_seo_details")
          /\ EndsWithRecords(secondary.opportunities,
                             Get(page_speed_scores, "_opportunities"))
          /\ EndsWithRecords(secondary.accessibility,
                             Get(page_speed_scores, "_accessibility_issues"))
          /\ EndsWithRecords(secondary.seo, Get(page_speed_scores, "_seo_details"))

\* a row was written for a result that carries an opportunity, and the
\* opportunity is in its store
C28_Witness ==
    /\ pc = "after_write" /\ idx \in written
    /\ Get(page_speed_scores, "_opportunities") # <<>>
    /\ secondary.opportunities.exists
    /\ csvRows[Len(csvRows)].kind = "data"

\* a dict as the set of its items
Items(d) == {d[i] : i \in 1..Len(d)}

\* the record the same payloads give when desktop is merged before mobile
DesktopFirst(url_to_test, final_url, mobile, desktop) ==
    LET start == [result |-> << <<"url", url_to_test>>, <<"final_url", final_url>> >>,
                  opportunities |-> <<>>, accessibility |-> <<>>, seo |-> <<>>]
        d == MergeDevice(start, desktop, "desktop", url_to_test)
        m == MergeDevice(d, mobile, "mobile", url_to_test)
    IN  m.result

\* C22: the record built from the two fragments is the same whichever is
\* merged first: the fragments share no key, every key occurs once, and url
\* and final_url keep the values the record started with.
C22_MergeOrderIndependent ==
    (pc = "finally" /\ page_speed_scores # <<>>) =>
        LET url == test_urls[idx]
            record == CleanData(page_speed_scores)
            m == extract_lighthouse_data(window.mobile, "mobile")
            d == extract_lighthouse_data(window.desktop, "desktop")
        IN  /\ Items(record)
                  = Items(DesktopFirst(url, FinalUrl(url), window.mobile, window.desktop))
            /\ Cardinality(Items(DictKeys(record))) = Len(record)
            /\ Items(DictKeys(m)) \cap Items(DictKeys(d)) = {}
            /\ Get(record, "url") = url /\ Get(record, "final_url") = FinalUrl(url)

\* a record was built from a mobile and a desktop fragment with different
\* performance scores
C22_Witness ==
    /\ pc = "finally"
    /\ HasKey(page_speed_scores, "mobile_performance")
    /\ HasKey(page_speed_scores, "desktop_performance")
    /\ Get(page_speed_scores, "mobile_performance")
          # Get(page_speed_scores, "desktop_performance")

----------------------------------------------------------------------------
(* the insight miners on one payload, src/main.py:135-143 *)

\* audit scores 0, 0.5, 0.9, 1 and null; details.overallSavingsMs absent,
\* negative, 0, and on both sides of the two tier boundaries
SampleAuditScores == {Null, 0, 500, 900, 1000}
SampleSavings ==
    {<<>>, <<0 - 5>>, <<0>>, <<300>>, <<500>>, <<501>>, <<1000>>, <<1001>>, <<1200>>}

\* the audits of PFull, or one or two audits: of a miner's catalog, or of no
\* catalog
SampleMineAudits ==
    {<<>>, PFull.audits}
    \cup { << <<k, Audit(sc, <<>>, Null, sv)>> >> :
              k \in {"uses-http2", "font-display", "color-contrast",
                     "meta-description", "server-response-time"},
              sc \in SampleAuditScores, sv \in SampleSavings }
    \cup { << <<"font-display", Audit(sc, <<>>, Null, <<700>>)>>,
              <<"image-alt", Audit(0, <<>>, Null, <<>>)>>,
              <<"unminified-css", Audit(500, <<>>, Null, sv)>>,
              <<"color-contrast", Audit(sc, <<>>, Null, <<>>)>> >> :
              sc \in SampleAuditScores, sv \in SampleSavings }

MineInit ==
    /\ mnPayload \in [truthy : {TRUE}, categories : {<<>>}, audits : SampleMineAudits]
    /\ mnDevice \in Devices
    /\ mnUrl \in Urls
    /\ mnOut = NoLists
    /\ mnPc = "opportunities"

\* line 135 (157 for desktop)
ExtractOpportunities ==
    /\ mnPc = "opportunities"
    /\ mnOut' = [mnOut EXCEPT !.opportunities =
                    extract_performance_opportunities(mnPayload, mnDevice, mnUrl)]
    /\ mnPc' = "accessibility"
    /\ UNCHANGED <<mnPayload, mnDevice, mnUrl>>

\* line 139 (161)
ExtractAccessibility ==
    /\ mnPc = "accessibility"
    /\ mnOut' = [mnOut EXCEPT !.accessibility =
                    extract_accessibility_issues(mnPayload, mnDevice, mnUrl)]
    /\ mnPc' = "seo"
    /\ UNCHANGED <<mnPayload, mnDevice, mnUrl>>

\* line 143 (165)
ExtractSeo ==
    /\ mnPc = "seo"
    /\ mnOut' = [mnOut EXCEPT !.seo = extract_seo_details(mnPayload, mnDevice, mnUrl)]
    /\ mnPc' = "done"
    /\ UNCHANGED <<mnPayload, mnDevice, mnUrl>>

InitMine == MineInit /\ CsvIdle /\ UrlIdle /\ ExIdle /\ BatchIdle /\ ClsIdle /\ LegacyIdle /\ FlowIdle

NextMine ==
    \/ ExtractOpportunities /\ UNCHANGED <<csvVars, urlVars, exVars, batchVars, clsVars, lgVars, wfVars>>
    \/ ExtractAccessibility /\ UNCHANGED <<csvVars, urlVars, exVars, batchVars, clsVars, lgVars, wfVars>>
    \/ ExtractSeo /\ UNCHANGED <<csvVars, urlVars, exVars, batchVars, clsVars, lgVars, wfVars>>

SpecMine == InitMine /\ [][NextMine]_vars

\* the records of a list that carry one audit id
RecordsOf(records, audit_id) ==
    {i \in 1..Len(records) : records[i].audit_id = audit_id}

\* the audits of the payload stored under one key
AuditsAt(audits, audit_key) ==
    {j \in 1..Len(audits) : audits[j][1] = audit_key}

\* C19: after extract_performance_opportunities every catalog audit has one
\* record exactly when it is present with score < 1 and overallSavingsMs > 0
\* (none for zero, negative or absent savings); the impact is High above
\* 1000, Medium above 500 up to 1000, Low up to 500; no record carries a key
\* outside the 12-key catalog.
C19_OpportunityIffSavings ==
    mnPc \in {"accessibility", "seo", "done"} =>
        LET recs == mnOut.opportunities
            audits == mnPayload.audits
        IN  /\ \A c \in 1..Len(opportunity_audits) :
                  LET k == opportunity_audits[c]
                      due == \E j \in AuditsAt(audits, k) :
                                /\ audits[j][2].score \in 0..999
                                /\ audits[j][2].savings # <<>>
                                /\ audits[j][2].savings[1] > 0
                  IN  Cardinality(RecordsOf(recs, k)) = IF due THEN 1 ELSE 0
            /\ \A i \in 1..Len(recs) :
                  /\ InSeq(recs[i].audit_id, opportunity_audits)
                  /\ recs[i].impact =
                        (IF recs[i].potential_savings_ms > 1000 THEN "High"
                         ELSE IF recs[i].potential_savings_ms > 500 THEN "Medium"
                         ELSE "Low")
                  /\ \E j \in AuditsAt(audits, recs[i].audit_id) :
                        recs[i].potential_savings_ms = audits[j][2].savings[1]

\* savings of exactly 1000 ms were mined as Medium
C19_Witness ==
    /\ mnPc = "done"
    /\ \E i \in 1..Len(mnOut.opportunities) :
          /\ mnOut.opportunities[i].potential_savings_ms = 1000
          /\ mnOut.opportunities[i].impact = "Medium"

\* C20: after extract_accessibility_issues every catalog audit has one record
\* exactly when it is present with score < 1 (none for a null score or score
\* 1); the severity is Critical for score 0 and Warning for a score strictly
\* between 0 and 1.
C20_AccessibilityIffFailing ==
    mnPc \in {"seo", "done"} =>
        LET recs == mnOut.accessibility
            audits == mnPayload.audits
        IN  /\ \A c \in 1..Len(accessibility_audits) :
                  LET k == accessibility_audits[c]
                      due == \E j \in AuditsAt(audits, k) :
                                audits[j][2].score \in 0..999
                  IN  Cardinality(RecordsOf(recs, k)) = IF due THEN 1 ELSE 0
            /\ \A i \in 1..Len(recs) :
                  /\ InSeq(recs[i].audit_id, accessibility_audits)
                  /\ recs[i].severity = "Critical" <=> recs[i].score = 0
                  /\ recs[i].severity = "Warning" <=> recs[i].score \in 1..999

\* one payload gave a Critical and a Warning record
C20_Witness ==
    /\ mnPc = "done"
    /\ \E i, j \in 1..Len(mnOut.accessibility) :
          /\ mnOut.accessibility[i].severity = "Critical"
          /\ mnOut.accessibility[j].severity = "Warning"

\* C21: after extract_seo_details every catalog audit present in the payload
\* has exactly one record, whatever its score; the status is Pass for score
\* 1, Fail for score 0 and Warning for any other score, null included.
C21_SeoRecordPerAudit ==
    mnPc = "done" =>
        LET recs == mnOut.seo
            audits == mnPayload.audits
        IN  /\ \A c \in 1..Len(seo_audits) :
                  Cardinality(RecordsOf(recs, seo_audits[c]))
                      = Cardinality(AuditsAt(audits, seo_audits[c]))
            /\ \A i \in 1..Len(recs) :
                  /\ InSeq(recs[i].audit_id, seo_audits)
                  /\ recs[i].status = "Pass" <=> recs[i].score = 1000
                  /\ recs[i].status = "Fail" <=> recs[i].score = 0
                  /\ recs[i].status = "Warning" <=> recs[i].score \notin {0, 1000}

\* an SEO audit with a null score was recorded as Warning
C21_Witness ==
    /\ mnPc = "done"
    /\ \E i \in 1..Len(mnOut.seo) :
          mnOut.seo[i].score = Null /\ mnOut.seo[i].status = "Warning"

----------------------------------------------------------------------------
(* Python string and number operations used by the report classifiers.     *)
(* A cell is [type, text]: type is "nan", "str", "int" or "float", text is *)
(* str(cell). A number is an integer count of thousandths.                 *)

NaN == [type |-> "nan", text |-> "nan"]
StrCell(text) == [type |-> "str", text |-> text]
FloatCell(text) == [type |-> "float", text |-> text]
IntCell(text) == [type |-> "int", text |-> text]

\* pd.isna
IsNa(cell) == cell.type = "nan"

\* the characters of a string
Chars(text) == [i \in 1..Len(text) |-> SubSeq(text, i, i)]

\* str.replace(pat, ''): occurrences are removed left to right
RECURSIVE Remove(_, _)
Remove(cs, pat) ==
    IF Len(cs) < Len(pat) THEN cs
    ELSE IF SubSeq(cs, 1, Len(pat)) = pat
         THEN Remove(SubSeq(cs, Len(pat) + 1, Len(cs)), pat)
         ELSE <<Head(cs)>> \o Remove(Tail(cs), pat)

\* pat in string
Contains(cs, pat) ==
    \E i \in 1..(Len(cs) - Len(pat) + 1) : SubSeq(cs, i, i + Len(pat) - 1) = pat

Digits == {"0", "1", "2", "3", "4", "5", "6", "7", "8", "9"}

DigitVal(c) ==
    CASE c = "0" -> 0 [] c = "1" -> 1 [] c = "2" -> 2 [] c = "3" -> 3
      [] c = "4" -> 4 [] c = "5" -> 5 [] c = "6" -> 6 [] c = "7" -> 7
      [] c = "8" -> 8 [] c = "9" -> 9

\* str.isdigit on the characters the model uses
IsDigitStr(cs) == cs # <<>> /\ \A i \in 1..Len(cs) : cs[i] \in Digits

\* the integer a run of digits denotes
RECURSIVE IntOf(_)
IntOf(ds) ==
    IF ds = <<>> THEN 0
    ELSE 10 * IntOf(SubSeq(ds, 1, Len(ds) - 1)) + DigitVal(ds[Len(ds)])

\* the thousandths a run of fraction digits denotes (digits past the third
\* are dropped; the cells of the model have at most three)
FracOf(ds) ==
    IntOf(SubSeq(ds \o <<"0", "0", "0">>, 1, 3))

\* an unsigned decimal literal: digits, digits '.' digits, digits '.', '.' digits
Unsigned(cs) ==
    LET dots == {i \in 1..Len(cs) : cs[i] = "."}
    IN  IF dots = {}
        THEN [ok |-> IsDigitStr(cs), val |-> IF IsDigitStr(cs) THEN 1000 * IntOf(cs) ELSE 0]
        ELSE LET d == CHOOSE i \in dots : TRUE
                 whole == SubSeq(cs, 1, d - 1)
                 frac == SubSeq(cs, d + 1, Len(cs))
                 ok == /\ Cardinality(dots) = 1
                       /\ whole \o frac # <<>>
                       /\ \A i \in 1..Len(whole) : whole[i] \in Digits
                       /\ \A i \in 1..Len(frac) : frac[i] \in Digits
             IN  [ok |-> ok, val |-> IF ok THEN 1000 * IntOf(whole) + FracOf(frac) ELSE 0]

\* float(string): surrounding whitespace and a sign are accepted, anything
\* else that is not a decimal literal is a ValueError (ok = FALSE). The cells
\* of the model hold no exponent, "inf" or "nan" text.
PyFloat(cs) ==
    LET t == Strip(cs)
    IN  IF t # <<>> /\ Head(t) = "-"
        THEN LET u == Unsigned(Tail(t)) IN [ok |-> u.ok, val |-> 0 - u.val]
        ELSE IF t # <<>> /\ Head(t) = "+" THEN Unsigned(Tail(t))
        ELSE Unsigned(t)

\* the digits at the head of a string
RECURSIVE DigitRun(_)
DigitRun(cs) ==
    IF cs # <<>> /\ Head(cs) \in Digits THEN <<Head(cs)>> \o DigitRun(Tail(cs)) ELSE <<>>

\* re.search(r'(\d+\.?\d*)', string).group(1): the first run of digits, with a
\* dot and further digits when they follow; <<>> when there is no digit
FirstNumber(cs) ==
    LET at == {i \in 1..Len(cs) : cs[i] \in Digits}
    IN  IF at = {} THEN <<>>
        ELSE LET i == CHOOSE a \in at : \A b \in at : a <= b
                 rest == SubSeq(cs, i, Len(cs))
                 whole == DigitRun(rest)
                 after == SubSeq(rest, Len(whole) + 1, Len(rest))
             IN  IF after # <<>> /\ Head(after) = "."
                 THEN whole \o <<".">> \o DigitRun(Tail(after))
                 ELSE whole

----------------------------------------------------------------------------
(* the classifiers of the three reporting surfaces *)

\* generate_html_report.py:787-798, in thousandths of a second (of a unit for
\* layout shift); the mobile_ and desktop_ entries are pairwise equal
html_thresholds ==
    << <<"first_contentful_paint", <<1800, 3000>> >>,
       <<"largest_contentful_paint", <<2500, 4000>> >>,
       <<"total_blocking_time", <<200, 600>> >>,
       <<"cumulative_layout_shift", <<100, 250>> >>,
       <<"speed_index", <<3400, 5800>> >> >>

\* generate_html_report.py:776-784: the number a cell is thresholded as, in
\* thousandths; ok is FALSE when the cleaned text is empty (777) or float()
\* raises ValueError (780). The cleaned text still holds the 'm' of "ms", so
\* such a cell is a ValueError and line 784 is never reached with a number.
html_normalize(value_str) ==
    LET text == Chars(value_str.text)
        value_clean == Strip(Remove(Remove(Remove(text, <<"s">>), <<"m", "s">>), <<",">>))
        parsed == PyFloat(value_clean)
    IN  IF value_clean = <<>> \/ ~parsed.ok THEN [ok |-> FALSE, val |-> 0]
        ELSE [ok |-> TRUE,
              val |-> IF Contains(text, <<"m", "s">>)
                      THEN parsed.val \div 1000 ELSE parsed.val]

\* generate_html_report.py:768-811; column is the name after the device
\* prefix
html_get_metric_class(device, column, value_str) ==
    IF IsNa(value_str) \/ value_str = StrCell("") \/ value_str = StrCell("N/A")
    THEN "score-poor"
    ELSE LET parsed == html_normalize(value_str)
             value == parsed.val
         IN  IF ~parsed.ok THEN "score-poor"
             ELSE IF HasKey(html_thresholds, column)
             THEN LET good_threshold == Get(html_thresholds, column)[1]
                      poor_threshold == Get(html_thresholds, column)[2]
                  IN  IF value <= good_threshold THEN "score-good"
                      ELSE IF value <= poor_threshold THEN "score-average"
                      ELSE "score-poor"
             ELSE "score-poor"

\* the good / needs-improvement / poor ladder of the enhanced report, strict
EnhancedLadder(value, good, poor) ==
    IF value < good THEN "metric-good"
    ELSE IF value < poor THEN "metric-needs-improvement"
    ELSE "metric-poor"

\* generate_enhanced_html_report.py:405-468
enhanced_get_metric_class(device, column, value_str) ==
    LET text == Chars(value_str.text)
        clean_value == Strip(Remove(Remove(Remove(text, <<"s">>), <<"m", "s">>), <<",">>))
    IN  IF clean_value = <<>>
           \/ ~IsDigitStr(Remove(Remove(clean_value, <<".">>), <<"-">>))
        THEN "metric-neutral"
        ELSE LET parsed == PyFloat(clean_value)
                 value == parsed.val
             IN  IF ~parsed.ok THEN "metric-neutral"
                 ELSE IF column = "first_contentful_paint"
                 THEN EnhancedLadder(value, 1800, 3000)
                 ELSE IF column = "largest_contentful_paint"
                 THEN EnhancedLadder(value, 2500, 4000)
                 ELSE IF column = "total_blocking_time"
                 THEN EnhancedLadder(IF Contains(text, <<"s">>) /\ value < 10000
                                     THEN value * 1000 ELSE value,
                                     200000, 600000)
                 ELSE IF column = "cumulative_layout_shift"
                 THEN EnhancedLadder(value, 100, 250)
                 ELSE IF column = "speed_index"
                 THEN EnhancedLadder(value, 3400, 5800)
                 ELSE "metric-neutral"

\* test_colors.py:23-30
test_thresholds ==
    << <<"fcp", <<1800, 3000>> >>,
       <<"lcp", <<2500, 4000>> >>,
       <<"tbt", <<200000, 600000>> >>,
       <<"cls", <<100, 250>> >>,
       <<"si", <<3400, 5800>> >>,
       <<"performance", <<90000, 50000>> >> >>

\* test_colors.py:4-41
test_get_metric_class(value, metric_type) ==
    IF IsNa(value) \/ value = StrCell("N/A") THEN "metric-na"
    ELSE LET found == IF value.type = "str"
                      THEN FirstNumber(Chars(value.text)) ELSE Chars(value.text)
         IN  IF found = <<>> THEN "metric-na"
             ELSE LET numeric_value == PyFloat(found).val
                  IN  IF HasKey(test_thresholds, metric_type)
                      THEN LET threshold == Get(test_thresholds, metric_type)
                           IN  IF numeric_value <= threshold[1] THEN "metric-good"
                               ELSE IF numeric_value <= threshold[2]
                               THEN "metric-needs-improvement"
                               ELSE "metric-poor"
                      ELSE "metric-default"

\* the metric_type under which a column is looked up in test_colors.py
MetricType(column) ==
    CASE column = "first_contentful_paint"   -> "fcp"
      [] column = "largest_contentful_paint" -> "lcp"
      [] column = "total_blocking_time"      -> "tbt"
      [] column = "cumulative_layout_shift"  -> "cls"
      [] column = "speed_index"              -> "si"
      [] column = "score"                    -> "performance"
      [] OTHER                               -> column

\* get_score_class, generate_html_report.py:706-714 and
\* generate_enhanced_html_report.py:395-403 (the same text); score is a number
get_score_class(score) ==
    IF IsNa(score) THEN "score-poor"
    ELSE LET v == PyFloat(Chars(score.text)).val
         IN  IF v >= 90000 THEN "score-good"
             ELSE IF v >= 50000 THEN "score-average"
             ELSE "score-poor"

\* create_circular_progress, generate_html_report.py:716-766: the class of
\* the circle
create_circular_progress(score) ==
    IF IsNa(score) \/ score = StrCell("") \/ score = StrCell("N/A") THEN "na"
    ELSE LET parsed == PyFloat(Chars(score.text))
         IN  IF ~parsed.ok THEN "na"
             ELSE LET truncated == IF parsed.val >= 0 THEN parsed.val \div 1000
                                   ELSE 0 - ((0 - parsed.val) \div 1000)
                      num_score == IF truncated < 0 THEN 0
                                   ELSE IF truncated > 100 THEN 100 ELSE truncated
                  IN  IF num_score >= 90 THEN "good"
                      ELSE IF num_score >= 50 THEN "average"
                      ELSE "poor"

\* the tier a CSS class stands for
Tier(css) ==
    CASE css \in {"score-good", "metric-good", "good"} -> "good"
      [] css \in {"score-average", "metric-needs-improvement", "average"}
            -> "needs-improvement"
      [] css \in {"score-poor", "metric-poor", "poor"} -> "poor"
      [] OTHER -> "unknown"

----------------------------------------------------------------------------
(* one stored cell under every classifier *)

\* the five columns of the threshold table and one metric column outside it
MetricColumns ==
    {"first_contentful_paint", "largest_contentful_paint", "total_blocking_time",
     "cumulative_layout_shift", "speed_index", "time_to_interactive"}

\* metric cells as read_csv returns them: display strings in seconds and in
\* milliseconds, on and around the boundaries, with a thousands separator;
\* bare numbers (a column holding only numbers is read as float); text that
\* is no number; an empty cell (NaN)
SampleCells ==
    {NaN}
    \cup {StrCell(t) : t \in
            {"N/A", "", "abc", "1.2.3",
             "0.9 s", "1.2 s", "1.8 s", "1.801 s", "2.5 s", "3.0 s", "3.4 s",
             "4.0 s", "5.2 s", "5.8 s", "6.0 s", "0.2 s", "0.6 s",
             "150 ms", "200 ms", "450 ms", "600 ms", "900 ms", "1,200 ms",
             "2,500 ms", "0.1", "0.25"}}
    \cup {FloatCell(t) : t \in {"0.0", "0.05", "0.1", "0.101", "0.25", "0.3", "1.8"}}

\* score cells: an integer column, a float column (one that has an empty
\* cell), an empty cell
SampleScoreCells ==
    {NaN}
    \cup {IntCell(t) : t \in {"0", "1", "45", "49", "50", "51", "85", "89", "90",
                            "91", "95", "100"}}
    \cup {FloatCell(t) : t \in {"0.0", "45.0", "49.0", "50.0", "85.0", "89.0",
                              "90.0", "100.0"}}

ClsInit ==
    /\ cColumn \in MetricColumns \cup {"score"}
    /\ cDevice \in Devices
    /\ cValue \in (IF cColumn = "score" THEN SampleScoreCells ELSE SampleCells)
    /\ cClass = <<>>
    /\ cPc = "ready"

\* the class each surface gives a metric cell: generate_html_report.py:890-918,
\* generate_enhanced_html_report.py:597/618, test_colors.py:45-50
ClassifyMetric ==
    /\ cPc = "ready" /\ cColumn # "score"
    /\ cClass' =
         << <<"generate_html_report",
              html_get_metric_class(cDevice, cColumn, cValue)>>,
            <<"generate_enhanced_html_report",
              enhanced_get_metric_class(cDevice, cColumn, cValue)>>,
            <<"test_colors", test_get_metric_class(cValue, MetricType(cColumn))>> >>
    /\ cPc' = "done"
    /\ UNCHANGED <<cColumn, cDevice, cValue>>

\* the class each surface gives a category score:
\* generate_html_report.py:841-866 (the circles),
\* generate_enhanced_html_report.py:495-534, test_colors.py:47-48
ClassifyScore ==
    /\ cPc = "ready" /\ cColumn = "score"
    /\ cClass' =
         << <<"generate_html_report", create_circular_progress(cValue)>>,
            <<"generate_enhanced_html_report", get_score_class(cValue)>>,
            <<"test_colors", test_get_metric_class(cValue, MetricType(cColumn))>> >>
    /\ cPc' = "done"
    /\ UNCHANGED <<cColumn, cDevice, cValue>>

InitClassify == ClsInit /\ CsvIdle /\ UrlIdle /\ ExIdle /\ BatchIdle /\ MineIdle /\ LegacyIdle /\ FlowIdle

NextClassify ==
    \/ ClassifyMetric /\ UNCHANGED <<csvVars, urlVars, exVars, batchVars, mineVars, lgVars, wfVars>>
    \/ ClassifyScore /\ UNCHANGED <<csvVars, urlVars, exVars, batchVars, mineVars, lgVars, wfVars>>

SpecClassify == InitClassify /\ [][NextClassify]_vars

\* the threshold table: (good boundary, poor boundary) in milliseconds for
\* the timings and in thousandths for layout shift
ThresholdTable ==
    << <<"first_contentful_paint", <<1800, 3000>> >>,
       <<"largest_contentful_paint", <<2500, 4000>> >>,
       <<"total_blocking_time", <<200, 600>> >>,
       <<"cumulative_layout_shift", <<100, 250>> >>,
       <<"speed_index", <<3400, 5800>> >> >>

\* the unit a cell carries: "ms", "s" or none
UnitOf(cell) ==
    LET t == Strip(Chars(cell.text))
        n == Len(t)
    IN  IF n >= 2 /\ SubSeq(t, n - 1, n) = <<"m", "s">> THEN "ms"
        ELSE IF n >= 1 /\ t[n] = "s" THEN "s"
        ELSE ""

\* the number a cell shows, in thousandths, without unit and separators
NumberOf(cell) ==
    LET t == Strip(Chars(cell.text))
        bare == SubSeq(t, 1, Len(t) - Len(UnitOf(cell)))
    IN  PyFloat(Remove(bare, <<",">>))

\* the cell shows a number
Numeric(cell) == ~IsNa(cell) /\ NumberOf(cell).ok

\* the units a column's values come in; its base unit is the first
UnitsOf(column) ==
    CASE column = "cumulative_layout_shift" -> <<"">>
      [] column = "total_blocking_time"     -> <<"ms", "s">>
      [] OTHER                              -> <<"s", "ms">>

\* the value of a numeric cell in milliseconds (thousandths for layout
\* shift); a cell without unit is in the column's base unit
Canonical(column, cell) ==
    LET unit == IF UnitOf(cell) = "" THEN UnitsOf(column)[1] ELSE UnitOf(cell)
    IN  IF unit = "ms" THEN NumberOf(cell).val \div 1000 ELSE NumberOf(cell).val

\* the tier of the table: boundaries belong to the better tier
TableTier(column, v) ==
    IF v <= Get(ThresholdTable, column)[1] THEN "good"
    ELSE IF v <= Get(ThresholdTable, column)[2] THEN "needs-improvement"
    ELSE "poor"

Surfaces == {"generate_html_report", "generate_enhanced_html_report", "test_colors"}

\* C13: on every reporting surface a timing value given in its metric's base
\* unit gets the tier of the table: good up to and including the good
\* boundary, needs-improvement above it up to and including the poor
\* boundary, poor above.
C13_BoundariesInclusive ==
    (/\ cPc = "done" /\ HasKey(ThresholdTable, cColumn)
     /\ Numeric(cValue) /\ UnitOf(cValue) \in {"", UnitsOf(cColumn)[1]}) =>
        \A sf \in Surfaces :
            Tier(Get(cClass, sf)) = TableTier(cColumn, Canonical(cColumn, cValue))

\* C14: the three classifiers give a cell the same tier, and the tier is the
\* same for the mobile_ and the desktop_ column.
C14_SameTierEverywhere ==
    cPc = "done" =>
        /\ \A sf, sg \in Surfaces : Tier(Get(cClass, sf)) = Tier(Get(cClass, sg))
        /\ cColumn # "score" =>
             \A dev \in Devices :
                /\ html_get_metric_class(dev, cColumn, cValue)
                      = Get(cClass, "generate_html_report")
                /\ enhanced_get_metric_class(dev, cColumn, cValue)
                      = Get(cClass, "generate_enhanced_html_report")

\* C15: every classifier of category scores gives an integer score 0..100
\* good from 90 up, poor below 50 and needs-improvement between.
C15_ScoreTiers ==
    (cPc = "done" /\ cColumn = "score" /\ cValue.type = "int") =>
        LET score == NumberOf(cValue).val \div 1000
        IN  \A sf \in Surfaces :
                Tier(Get(cClass, sf)) =
                    (IF score >= 90 THEN "good"
                     ELSE IF score < 50 THEN "poor" ELSE "needs-improvement")

\* good > needs-improvement > poor; 3 for a class outside the order
Rank(tier) ==
    CASE tier = "good" -> 0 [] tier = "needs-improvement" -> 1
      [] tier = "poor" -> 2 [] OTHER -> 3

\* the tiers the surfaces give another cell of the same column
TiersOf(column, cell) ==
    IF column = "score"
    THEN << <<"generate_html_report", Tier(create_circular_progress(cell))>>,
            <<"generate_enhanced_html_report", Tier(get_score_class(cell))>>,
            <<"test_colors", Tier(test_get_metric_class(cell, MetricType(column)))>> >>
    ELSE << <<"generate_html_report",
              Tier(html_get_metric_class(cDevice, column, cell))>>,
            <<"generate_enhanced_html_report",
              Tier(enhanced_get_metric_class(cDevice, column, cell))>>,
            <<"test_colors", Tier(test_get_metric_class(cell, MetricType(column)))>> >>

\* the value of a numeric cell of a table kind, the score column included
ValueOf(column, cell) ==
    IF column = "score" THEN NumberOf(cell).val \div 1000 ELSE Canonical(column, cell)

\* C16: for every kind of the threshold table (category score included) and
\* every surface, of two numeric values of the kind the smaller one is
\* classified no worse than the larger one.
C16_Monotonic ==
    (/\ cPc = "done" /\ (HasKey(ThresholdTable, cColumn) \/ cColumn = "score")
     /\ Numeric(cValue)) =>
        \A other \in (IF cColumn = "score" THEN SampleScoreCells ELSE SampleCells) :
            (Numeric(other) /\ ValueOf(cColumn, cValue) < ValueOf(cColumn, other)) =>
                \A sf \in Surfaces :
                    LET mine == Rank(Tier(Get(cClass, sf)))
                        theirs == Rank(Get(TiersOf(cColumn, other), sf))
                    IN  (mine < 3 /\ theirs < 3) => mine <= theirs

\* C17: a display string that carries a unit ("s" or "ms", with or without
\* thousands separators) is classified by its value in the metric's base
\* unit: "2,500 ms" for largest-contentful-paint and "150 ms" for
\* total-blocking-time are good.
C17_UnitsConverted ==
    (/\ cPc = "done"
     /\ cColumn \in {"first_contentful_paint", "largest_contentful_paint",
                     "total_blocking_time", "speed_index"}
     /\ Numeric(cValue) /\ UnitOf(cValue) # "") =>
        \A sf \in {"generate_html_report", "test_colors"} :
            Tier(Get(cClass, sf)) = TableTier(cColumn, Canonical(cColumn, cValue))

\* C18: a metric cell whose column is not in the threshold table, or which
\* is empty or shows no number, is classified unknown on every surface,
\* never poor.
C18_UnknownNotPoor ==
    (/\ cPc = "done" /\ cColumn # "score"
     /\ (~HasKey(ThresholdTable, cColumn) \/ ~Numeric(cValue))) =>
        \A sf \in Surfaces : Tier(Get(cClass, sf)) = "unknown"

----------------------------------------------------------------------------
(* a synthesized display string on its way through the store to a report *)

DigitChar(d) == SubSeq("0123456789", d + 1, d + 1)

\* str() of a natural number
RECURSIVE ToStr(_)
ToStr(n) == IF n < 10 THEN DigitChar(n) ELSE ToStr(n \div 10) \o DigitChar(n % 10)

\* n as exactly w digits
RECURSIVE Pad(_, _)
Pad(n, w) == IF w = 0 THEN "" ELSE Pad(n \div 10, w - 1) \o DigitChar(n % 10)

RECURSIVE Pow10(_)
Pow10(k) == IF k = 0 THEN 1 ELSE 10 * Pow10(k - 1)

\* the text of a display string <<digits, decimals, unit>>, as the f-strings
\* of main.py:237-243 build it and writerow stores it
Render(display) ==
    IF display[2] = 0 THEN ToStr(display[1]) \o display[3]
    ELSE ToStr(display[1] \div Pow10(display[2])) \o "."
         \o Pad(display[1] % Pow10(display[2]), display[2]) \o display[3]

\* the cell read_csv returns for a stored text: a text with a unit stays a
\* string, a bare number comes back as a float
ReadCell(text) ==
    IF UnitOf(StrCell(text)) = "" THEN FloatCell(text) ELSE StrCell(text)

\* numeric values without display string: 0, below 1000 ms, from 1000 ms up
SampleNumericValues == {0, 1, 52, 150, 999, 1000, 1005, 1234, 2345, 2500}

RoundTripInit ==
    /\ exPayload \in
          [truthy : {TRUE}, categories : {<<>>},
           audits : { << <<metrics_mapping[i][1], Audit(500, <<>>, n, <<>>)>> >> :
                         i \in 1..Len(metrics_mapping), n \in SampleNumericValues }]
    /\ exDevice \in Devices
    /\ exData = <<>>
    /\ exPc = "ready"

\* the stored metric as a report reads it: main.py:479 (writerow) and
\* generate_html_report.py:13 (read_csv), 890-918 (row.get)
ReadBack ==
    /\ exPc = "done" /\ cPc = "idle"
    /\ \E i \in 1..Len(exData) :
          /\ cColumn' = SubSeq(exData[i][1], Len(exDevice) + 2, Len(exData[i][1]))
          /\ cValue' = ReadCell(Render(exData[i][2]))
    /\ cDevice' = exDevice
    /\ cPc' = "ready"
    /\ UNCHANGED cClass

InitRoundTrip == RoundTripInit /\ CsvIdle /\ UrlIdle /\ BatchIdle /\ MineIdle /\ ClsIdle /\ LegacyIdle /\ FlowIdle

NextRoundTrip ==
    \/ Extract /\ UNCHANGED <<csvVars, urlVars, batchVars, mineVars, clsVars, lgVars, wfVars>>
    \/ ReadBack /\ UNCHANGED <<csvVars, urlVars, exVars, batchVars, mineVars, lgVars, wfVars>>
    \/ ClassifyMetric /\ UNCHANGED <<csvVars, urlVars, exVars, batchVars, mineVars, lgVars, wfVars>>

SpecRoundTrip == InitRoundTrip /\ [][NextRoundTrip]_vars

\* C23: the number a report reads out of a synthesized display string is the
\* numeric value it was synthesized from, up to the precision of the display
\* form (half a unit of its last decimal).
C23_RoundTrip ==
    cPc = "done" =>
        LET v == exPayload.audits[1][2].numericValue
            back == html_normalize(cValue)
        IN  /\ back.ok
            /\ back.val - v \in -5..5

----------------------------------------------------------------------------
(* payloads with one malformed entry, through extract_lighthouse_data *)

\* the titles a category entry may carry: its own, none, or JSON null
TitlesOf(title) == {title, NoTitle, NullTitle}

\* three categories with a score each; any of the titles may be absent or null
MalformedCategories ==
    { <<Category("performance", t1, 900), Category("accessibility", t2, 1000),
        Category("seo", t3, 850)>> :
          t1 \in TitlesOf("Performance"), t2 \in TitlesOf("Accessibility"),
          t3 \in TitlesOf("SEO") }

MalformedInit ==
    /\ exPayload \in
          [truthy : {TRUE}, categories : MalformedCategories,
           audits : {<<>>, PFull.audits,
                     << <<"speed-index", Audit(500, <<>>, 2345, <<>>)>> >>}]
    /\ exDevice \in Devices
    /\ exData = <<>>
    /\ exPc = "ready"

InitMalformed == MalformedInit /\ CsvIdle /\ UrlIdle /\ BatchIdle /\ MineIdle /\ ClsIdle /\ LegacyIdle /\ FlowIdle

NextMalformed == Extract /\ UNCHANGED <<csvVars, urlVars, batchVars, mineVars, clsVars, lgVars, wfVars>>

SpecMalformed == InitMalformed /\ [][NextMalformed]_vars

\* C24: when one category entry is malformed (its title is null), only that
\* field is missing from the fragment: every category with a usable title and
\* a score, and every catalog metric with a usable value, is still emitted.
C24_FieldLevelRecovery ==
    exPc = "done" =>
        /\ \A i \in 1..Len(exPayload.categories) :
              LET c == exPayload.categories[i]
                  title == IF c.title = NoTitle THEN c.key ELSE c.title
              IN  (title # NullTitle /\ c.score # Null) =>
                      HasKey(exData, exDevice \o "_" \o LowerUnderscore(title))
        /\ \A i \in 1..Len(metrics_mapping), j \in 1..Len(exPayload.audits) :
              (/\ exPayload.audits[j][1] = metrics_mapping[i][1]
               /\ \/ exPayload.audits[j][2].displayValue # <<>>
                  \/ exPayload.audits[j][2].numericValue \in Nat)
              => HasKey(exData, exDevice \o "_" \o metrics_mapping[i][2])

----------------------------------------------------------------------------
(* the DOM-scraping variant, src/main_backup.py *)

UpperCase == "ABCDEFGHIJKLMNOPQRSTUVWXYZ"
LowerCase == "abcdefghijklmnopqrstuvwxyz"

\* one character of str.lower()
LowerChar(c) ==
    IF \E i \in 1..26 : SubSeq(UpperCase, i, i) = c
    THEN LET i == CHOOSE i \in 1..26 : SubSeq(UpperCase, i, i) = c
         IN  SubSeq(LowerCase, i, i)
    ELSE c

\* label.replace(' ', '_').lower(), lines 183-184 and 224
RECURSIVE LabelKey(_)
LabelKey(label) ==
    IF label = "" THEN ""
    ELSE (IF SubSeq(label, 1, 1) = " " THEN "_" ELSE LowerChar(SubSeq(label, 1, 1)))
         \o LabelKey(SubSeq(label, 2, Len(label)))

selectors ==
    <<"#first-contentful-paint", "#largest-contentful-paint",
      "#total-blocking-time", "#cumulative-layout-shift", "#speed-index">>

\* extract_metrics_from_wrapper, lines 170-190. nodes maps a selector to the
\* <<title text, value text>> of its node; find_element raises for a selector
\* without a node, and the except clause is outside the loop
RECURSIVE LegacyMetricsLoop(_, _, _, _)
LegacyMetricsLoop(sels, nodes, device_type, metrics) ==
    IF sels = <<>> THEN metrics
    ELSE IF ~HasKey(nodes, Head(sels)) THEN metrics
    ELSE LET node == Get(nodes, Head(sels))
         IN  LegacyMetricsLoop(Tail(sels), nodes, device_type,
                 SetItem(metrics, device_type \o "_" \o LabelKey(node[1]), node[2]))

extract_metrics_from_wrapper(metrics_wrapper, device_type) ==
    LegacyMetricsLoop(selectors, metrics_wrapper, device_type, <<>>)

\* extract_scores_from_wrapper, lines 192-234. A gauge is the texts of its
\* child elements; the last two are the score and the label
RECURSIVE extract_scores_from_wrapper(_, _)
extract_scores_from_wrapper(gauge_wrappers, device_type) ==
    IF gauge_wrappers = <<>> THEN <<>>
    ELSE LET rest == extract_scores_from_wrapper(
                        SubSeq(gauge_wrappers, 1, Len(gauge_wrappers) - 1), device_type)
             child_elements == gauge_wrappers[Len(gauge_wrappers)]
         IN  IF Len(child_elements) >= 2
             THEN LET score_text == child_elements[Len(child_elements) - 1]
                      label_text == child_elements[Len(child_elements)]
                  IN  IF label_text # "" /\ score_text # ""
                      THEN SetItem(rest, device_type \o "_" \o LabelKey(label_text),
                                   score_text)
                      ELSE rest
             ELSE rest

\* what one tab of the page shows within the waits: the tab's div, the score
\* wrapper with its gauges, the metrics container with its nodes
Tab(div, scores, metrics) == [div |-> div, scores |-> scores, metrics |-> metrics]
Wrapper(present, items) == [present |-> present, items |-> items]

SampleGauges ==
    << <<"85", "Performance">>, <<"", "Accessibility">>,
       <<"icon", "100", "Best Practices">>, <<"92">> >>

AllNodes ==
    << <<"#first-contentful-paint", <<"First Contentful Paint", "1.2 s">> >>,
       <<"#largest-contentful-paint", <<"Largest Contentful Paint", "2.4 s">> >>,
       <<"#total-blocking-time", <<"Total Blocking Time", "150 ms">> >>,
       <<"#cumulative-layout-shift", <<"Cumulative Layout Shift", "0.01">> >>,
       <<"#speed-index", <<"Speed Index", "3.1 s">> >> >>

\* the same container without the node of total blocking time
NodesWithoutThird == SelectSeq(AllNodes, LAMBDA n : n[1] # "#total-blocking-time")

SampleTabs ==
    { Tab(div, Wrapper(s, SampleGauges), Wrapper(m, nodes)) :
         div \in BOOLEAN, s \in BOOLEAN, m \in BOOLEAN,
         nodes \in {AllNodes, NodesWithoutThird} }

LegacyUrl == "https://a.example"

LegacyInit ==
    /\ lgDom \in [mobile : SampleTabs, buttons : 0..2, desktop : SampleTabs]
    /\ lgResult = <<>>
    /\ lgOpen = TRUE
    /\ lgPc = "mobile"

\* lines 162-164: the except clause
LegacyCaught == lgResult' = <<>> /\ lgPc' = "finally"

\* the three waits of one tab, lines 73-94 and 134-154
TabReady(tab) == tab.div /\ tab.scores.present /\ tab.metrics.present

\* lines 66-107: the waits for the mobile tab, then its scores and metrics
LegacyMobile ==
    /\ lgPc = "mobile"
    /\ IF TabReady(lgDom.mobile)
       THEN /\ lgResult' =
                  Update(Update(<< <<"url", LegacyUrl>>,
                                   <<"final_url", FinalUrl(LegacyUrl)>> >>,
                                extract_scores_from_wrapper(lgDom.mobile.scores.items,
                                                            "mobile")),
                         extract_metrics_from_wrapper(lgDom.mobile.metrics.items,
                                                      "mobile"))
            /\ lgPc' = "tabs"
       ELSE LegacyCaught
    /\ UNCHANGED <<lgDom, lgOpen>>

\* lines 109-131: the tab container (its wait raises when there are no
\* buttons at all), then the click, or the return with the mobile data
LegacyTabs ==
    /\ lgPc = "tabs"
    /\ IF lgDom.buttons = 0 THEN LegacyCaught
       ELSE IF lgDom.buttons >= 2 THEN lgPc' = "desktop" /\ UNCHANGED lgResult
       ELSE lgPc' = "finally" /\ UNCHANGED lgResult
    /\ UNCHANGED <<lgDom, lgOpen>>

\* lines 132-161: the waits for the desktop tab, then its scores and metrics
LegacyDesktop ==
    /\ lgPc = "desktop"
    /\ IF TabReady(lgDom.desktop)
       THEN /\ lgResult' =
                  Update(Update(lgResult,
                                extract_scores_from_wrapper(lgDom.desktop.scores.items,
                                                            "desktop")),
                         extract_metrics_from_wrapper(lgDom.desktop.metrics.items,
                                                      "desktop"))
            /\ lgPc' = "finally"
       ELSE LegacyCaught
    /\ UNCHANGED <<lgDom, lgOpen>>

\* lines 165-168: finally
LegacyQuit ==
    /\ lgPc = "finally"
    /\ lgOpen' = FALSE /\ lgPc' = "returned"
    /\ UNCHANGED <<lgDom, lgResult>>

InitLegacy ==
    LegacyInit /\ CsvIdle /\ UrlIdle /\ ExIdle /\ BatchIdle /\ MineIdle /\ ClsIdle /\ FlowIdle

LegacyFrame ==
    UNCHANGED <<csvVars, urlVars, exVars, batchVars, mineVars, clsVars, wfVars>>

NextLegacy ==
    \/ LegacyMobile /\ LegacyFrame
    \/ LegacyTabs /\ LegacyFrame
    \/ LegacyDesktop /\ LegacyFrame
    \/ LegacyQuit /\ LegacyFrame

SpecLegacy == InitLegacy /\ [][NextLegacy]_vars

\* C27: when the mobile scores and metrics were extracted and the desktop
\* step then fails (its tab or its score wrapper does not appear within the
\* wait), the call returns a record with the mobile data and no desktop key.
C27_LegacyKeepsMobile ==
    ( /\ lgPc = "returned"
      /\ TabReady(lgDom.mobile)
      /\ lgDom.buttons >= 2
      /\ ~lgDom.desktop.div \/ ~lgDom.desktop.scores.present )
    => /\ lgResult # <<>>
       /\ HasKey(lgResult, "mobile_performance")
       /\ \A i \in 1..Len(lgResult) : PartialKey(lgResult[i][1], "mobile")

----------------------------------------------------------------------------
(* the workflow runner, src/run_analysis.py *)

MaxRuns == 2

\* lines 97-119: the lines that hold a URL, stripped, in file order
RECURSIVE valid_urls(_)
valid_urls(lines) ==
    IF lines = <<>> THEN <<>>
    ELSE LET clean_line == Strip(Head(lines))
         IN  (IF ClassifyLine(clean_line) = "url" THEN <<clean_line>> ELSE <<>>)
             \o valid_urls(Tail(lines))

\* what main.py's read_urls_from_file returns for the same file
LoadedUrls(file) == IF file.exists THEN valid_urls(file.lines) ELSE <<>>

\* mutant: a command counts as successful whatever its exit code
run_command_IgnoreCode(returncode) == TRUE

\* lines 41-55: True exactly for exit code 0
run_command(returncode) == returncode = 0

\* urls.txt: missing, without a valid URL, with one URL, with two and a
\* rejected line between them
SampleUrlFiles ==
    { [exists |-> FALSE, lines |-> <<>>],
      [exists |-> TRUE, lines |-> << <<"#", "a">>, <<"ftp://", "a">> >>],
      [exists |-> TRUE, lines |-> << <<"http://", "a">> >>],
      [exists |-> TRUE,
       lines |-> << <<" ", "https://", "b", " ">>, <<"ftp://", "a">>, <<"http://", "a">> >>] }

\* what get_pagespeed_results returns for a target: None, a record of both
\* devices, a record of the mobile payload alone
TargetOutcomes == {"none", "both", "mobile"}

ResultOf(url, outcome) ==
    CASE outcome = "none"   -> <<>>
      [] outcome = "both"   -> ExtractResults(url, FinalUrl(url), PFull, PPwa)
      [] outcome = "mobile" -> ExtractResults(url, FinalUrl(url), PFull, NoPayload)

\* main.py:642-660 over the results of the targets processed: the primary
\* store and the secondary stores after the writers
RECURSIVE RunTargets(_, _, _)
RunTargets(results, file, stores) ==
    IF results = <<>> THEN [file |-> file, stores |-> stores]
    ELSE LET scores == Head(results)
         IN  IF scores # <<>>
             THEN RunTargets(Tail(results),
                             write_to_csv(file.exists, file.rows, scores),
                             WriteInsights(stores, scores))
             ELSE RunTargets(Tail(results), file, stores)

\* the records of one issue list carried by a sequence of results
RECURSIVE Carried(_, _)
Carried(results, key) ==
    IF results = <<>> THEN <<>>
    ELSE (IF Head(results) # <<>> THEN Get(Head(results), key) ELSE <<>>)
         \o Carried(Tail(results), key)

WorkflowInit ==
    /\ urlsFile \in SampleUrlFiles
    /\ linePos = 0 /\ urls = <<>> /\ invalid_lines = <<>> /\ printed = <<>>
    /\ loadPc = "idle" /\ test_urls = <<>>
    /\ csvExists \in BOOLEAN
    /\ csvRows = IF csvExists
                 THEN write_to_csv(FALSE, <<>>, ResultOf(<<"http://", "old">>, "both")).rows
                 ELSE <<>>
    /\ csvCalls = 0 /\ report = NoReport
    /\ htmlExists \in BOOLEAN
    /\ wfPc = "idle" /\ wfSteps = <<>> /\ wfReturn = "none" /\ wfRuns = 0
    /\ wfIssued = <<>>

\* python run_analysis.py is started
StartRun ==
    /\ wfPc \in {"idle", "returned"} /\ wfRuns < MaxRuns
    /\ wfPc' = "cleanup" /\ wfSteps' = <<>> /\ wfReturn' = "none"
    /\ wfRuns' = wfRuns + 1
    /\ UNCHANGED <<htmlExists, wfIssued, csvVars, urlVars, batchVars>>

\* a step ends the run with False, or hands over to the next step
StepDone(step, ok, next) ==
    /\ wfSteps' = Append(wfSteps, <<step, ok>>)
    /\ IF ok THEN wfPc' = next /\ UNCHANGED wfReturn
       ELSE wfPc' = "returned" /\ wfReturn' = "False"

\* cleanup_existing_files, lines 12-39 and 63-65: pagespeed_results.csv, then
\* pagespeed_report.html; os.remove may raise, which returns False at once
Cleanup ==
    /\ wfPc = "cleanup"
    /\ \/ /\ csvExists' = FALSE /\ csvRows' = <<>> /\ htmlExists' = FALSE
          /\ StepDone("cleanup", TRUE, "urls_file")
       \/ /\ csvExists
          /\ UNCHANGED <<csvExists, csvRows, htmlExists>>
          /\ StepDone("cleanup", FALSE, "urls_file")
       \/ /\ htmlExists
          /\ csvExists' = FALSE /\ csvRows' = <<>> /\ UNCHANGED htmlExists
          /\ StepDone("cleanup", FALSE, "urls_file")
    /\ UNCHANGED <<csvCalls, report, wfRuns, wfIssued, urlVars, batchVars>>

\* lines 90-94
CheckUrlsFile ==
    /\ wfPc = "urls_file"
    /\ StepDone("urls_file", urlsFile.exists, "validate")
    /\ UNCHANGED <<htmlExists, wfRuns, wfIssued, csvVars, urlVars, batchVars>>

\* lines 96-139
ValidateUrls ==
    /\ wfPc = "validate"
    /\ StepDone("validate", valid_urls(urlsFile.lines) # <<>>, "analysis")
    /\ UNCHANGED <<htmlExists, wfRuns, wfIssued, csvVars, urlVars, batchVars>>

\* lines 145-157: main.py as a subprocess. It processes its URLs in order;
\* an exception outside get_pagespeed_results' try block ends it with a
\* non-zero exit code after the targets done so far
RunAnalysis ==
    /\ wfPc = "analysis"
    /\ LET targets == LoadedUrls(urlsFile)
       IN  \E crashed \in BOOLEAN, done \in 0..Len(targets) :
           \E outcomes \in [1..done -> TargetOutcomes] :
              /\ IF crashed THEN done < Len(targets) ELSE done = Len(targets)
              /\ LET results == [i \in 1..done |-> ResultOf(targets[i], outcomes[i])]
                     after == RunTargets(results,
                                         [exists |-> csvExists, rows |-> csvRows],
                                         secondary)
                     returncode == IF crashed \/ targets = <<>> THEN 1 ELSE 0
                 IN  /\ csvExists' = after.file.exists
                     /\ csvRows' = after.file.rows
                     /\ secondary' = after.stores
                     /\ wfIssued' = Append(wfIssued,
                            [run |-> wfRuns, returncode |-> returncode,
                             urls |-> SelectSeq([i \in 1..done |->
                                                   IF results[i] # <<>> THEN targets[i]
                                                   ELSE <<>>],
                                                LAMBDA u : u # <<>>),
                             opportunities |-> Carried(results, "_opportunities"),
                             accessibility |-> Carried(results, "_accessibility_issues"),
                             seo |-> Carried(results, "_seo_details")])
                     /\ StepDone("analysis", run_command(returncode), "html")
    /\ UNCHANGED <<csvCalls, report, htmlExists, wfRuns, urlVars, pc, idx, sessions,
                   window, elapsed, mobile_json, desktop_json, page_speed_scores,
                   delay, delayCount, attempted, failed, written>>

\* lines 159-161 and 213: generate_html_report.py as a subprocess. It writes
\* the report when it can read the primary store and exits with 0 either
\* way (generate_html_report.py:12, 693-701); the interpreter failing to
\* start it is a non-zero exit code
GenerateHtml ==
    /\ wfPc = "html"
    /\ \E returncode \in {0, 1} :
          /\ htmlExists' = IF returncode = 0 /\ Readable(csvExists, csvRows)
                           THEN TRUE ELSE htmlExists
          /\ wfSteps' = Append(wfSteps, <<"html", run_command(returncode)>>)
          /\ wfReturn' = IF run_command(returncode) THEN "True" ELSE "False"
    /\ wfPc' = "returned"
    /\ UNCHANGED <<wfRuns, wfIssued, csvVars, urlVars, batchVars>>

InitWorkflow ==
    /\ WorkflowInit /\ ExIdle /\ MineIdle /\ ClsIdle /\ LegacyIdle
    /\ secondary = NoStores /\ pc = "idle" /\ idx = 0 /\ sessions = {}
    /\ window = NoWindow /\ elapsed = 0
    /\ mobile_json = NoPayload /\ desktop_json = NoPayload
    /\ page_speed_scores = <<>> /\ delay = 0 /\ delayCount = 0
    /\ attempted = {} /\ failed = {} /\ written = {}

WorkflowFrame == UNCHANGED <<exVars, mineVars, clsVars, lgVars>>

NextWorkflow ==
    \/ StartRun /\ WorkflowFrame
    \/ Cleanup /\ WorkflowFrame
    \/ CheckUrlsFile /\ WorkflowFrame
    \/ ValidateUrls /\ WorkflowFrame
    \/ RunAnalysis /\ WorkflowFrame
    \/ GenerateHtml /\ WorkflowFrame

SpecWorkflow == InitWorkflow /\ [][NextWorkflow]_vars

\* the records of one issue list that the analyses of all runs carried
RECURSIVE AllIssued(_, _)
AllIssued(issued, store) ==
    IF issued = <<>> THEN <<>>
    ELSE Head(issued)[store] \o AllIssued(Tail(issued), store)

\* the secondary store holds a header and exactly these records
HoldsRecords(file, name, records) ==
    IF records = <<>> THEN file = NoFile
    ELSE file = [exists |-> TRUE,
                 rows |-> <<[kind |-> "header", cells |-> name]>> \o IssueRows(records)]

\* the URLs the analysis of the current run wrote a row for
WrittenThisRun ==
    IF \E i \in 1..Len(wfIssued) : wfIssued[i].run = wfRuns
    THEN wfIssued[CHOOSE i \in 1..Len(wfIssued) : wfIssued[i].run = wfRuns].urls
    ELSE <<>>

\* C29: cleanup removes the primary store and the HTML report only. Each
\* secondary store holds, in order, the issue records of every run so far;
\* the primary store of a run whose cleanup went through holds the rows of
\* that run alone, and the cleanup itself leaves no result file behind.
C29_CleanupSparesSecondary ==
    /\ HoldsRecords(secondary.opportunities, "opportunities",
                    AllIssued(wfIssued, "opportunities"))
    /\ HoldsRecords(secondary.accessibility, "accessibility",
                    AllIssued(wfIssued, "accessibility"))
    /\ HoldsRecords(secondary.seo, "seo_details", AllIssued(wfIssued, "seo"))
    /\ (wfSteps # <<>> /\ wfSteps[1] = <<"cleanup", TRUE>>) =>
          /\ Len(DataRows) = Len(WrittenThisRun)
          /\ \A i \in 1..Len(DataRows) : DataRows[i].cells[1].val = WrittenThisRun[i]
          /\ wfPc = "urls_file" => ~csvExists /\ ~htmlExists

\* the second run has ended; both runs wrote rows and carried opportunities
C29_Witness ==
    /\ wfRuns = 2 /\ wfPc = "returned" /\ Len(wfIssued) = 2
    /\ wfIssued[1].opportunities # <<>> /\ wfIssued[2].opportunities # <<>>
    /\ wfIssued[1].urls # <<>>
    /\ Len(DataRows) = Len(wfIssued[2].urls) /\ Len(DataRows) > 0

StepOrder == <<"cleanup", "urls_file", "validate", "analysis", "html">>

\* C30: the steps of a run are entered in the order cleanup, urls.txt check,
\* URL validation, analysis, HTML generation, each after every earlier one
\* succeeded; main returns False at the first step that fails and True after
\* five successful steps; the HTML generation is entered only after an
\* analysis that exited with code 0; a run that stops at the urls.txt check
\* or at the validation has removed the result files and run no analysis.
C30_StepsInOrder ==
    /\ Len(wfSteps) <= Len(StepOrder)
    /\ \A i \in 1..Len(wfSteps) :
          /\ wfSteps[i][1] = StepOrder[i]
          /\ i < Len(wfSteps) => wfSteps[i][2]
    /\ wfReturn = "False" <=> (wfSteps # <<>> /\ ~wfSteps[Len(wfSteps)][2])
    /\ wfReturn = "True" <=> (Len(wfSteps) = 5 /\ wfSteps[5][2])
    /\ wfPc = "returned" <=> wfReturn # "none"
    /\ Len(wfSteps) = 5 =>
          \E i \in 1..Len(wfIssued) :
             wfIssued[i].run = wfRuns /\ wfIssued[i].returncode = 0
    /\ (wfReturn = "False" /\ Len(wfSteps) \in {2, 3}) =>
          /\ ~csvExists /\ ~htmlExists
          /\ \A i \in 1..Len(wfIssued) : wfIssued[i].run # wfRuns

\* the analysis ended with a non-zero exit code after it had written a row;
\* main returned False and no HTML generation was entered
C30_Witness ==
    /\ wfPc = "returned" /\ wfReturn = "False"
    /\ Len(wfSteps) = 4
    /\ Len(DataRows) > 0

============================================================================
